---------------------------- MODULE Spec2Model ----------------------------
(* A model of the trading-intent engine:                                   *)
(*   - TickFsmStateService  (src/src/app/tick/tick-fsm-state.service.ts)   *)
(*   - WebhookStateService  (src/src/app/webhook/webhook-state.service.ts) *)
(*   - PaperToLiveService   (src/unnamed/part_007)                         *)
(* null / undefined is modelled by Null (all real values are >= 0 where a  *)
(* field is nullable); a Map is a function whose DOMAIN is its key set.    *)
EXTENDS Integers, Sequences, FiniteSets, TLC

VARIABLES
  ticks,                  \* TickState.ticks: the recent-ticks list
  latestLtpByToken,       \* TickState.latestLtpByToken
  latestBinanceBySymbol,  \* TickState.latestBinanceBySymbol
  fsmByToken,             \* TickState.fsmByToken
  fsmBySymbol,            \* TickState.fsmBySymbol
  lastLog,                \* console lines written by logFsmTransition in the last event
  lastEvent,              \* the last TickEvent handed to reduceTickState
  inOrder,                \* TRUE while every event so far had receivedAt >= its predecessor's
  tradeState,             \* WebhookStateService.tradeState$ (the current TradeState)
  signalStateByMode,      \* WebhookStateService.signalStateByMode (SignalState per filter mode)
  stateBySymbol,          \* PaperToLiveService.stateBySymbol
  liveTradesSubject,      \* PaperToLiveService.liveTradesSubject (published rows)
  liveModeSubject,        \* PaperToLiveService.liveModeSubject (published isLiveActive)
  blockedUntilSubject,    \* PaperToLiveService.blockedUntilSubject
  sent,                   \* order notifications sent by the last call
  liveSignalLog,          \* console line of each of those requests that has settled
  lastOrderBySymbol,      \* the kind of the last order notification sent for each symbol
  latestTicks,            \* what TickComponent.latestTicks$ combined during the last event
  now                     \* Date.now()

tickVars == <<ticks, latestLtpByToken, latestBinanceBySymbol, fsmByToken, fsmBySymbol,
              lastLog, lastEvent, inOrder>>

\* the fields of WebhookStateService
ledgerVars == <<tradeState, signalStateByMode>>

\* the fields of PaperToLiveService, and what the observers of the services were handed
liveVars == <<stateBySymbol, liveTradesSubject, liveModeSubject, blockedUntilSubject, sent,
              liveSignalLog, lastOrderBySymbol, latestTicks>>

vars == <<tickVars, ledgerVars, liveVars, now>>

---------------------------------------------------------------------------
(* Bounds and input sets *)

MaxMinute == 1
MaxPrice == 3
MaxPaperRows == 3
MaxLiveRows == 3
MaxSignalRows == 3

Null == 0 - 1
\* a missing (undefined) string field
NoString == "<undefined>"

MsPerMinute == 60000
MsPerSecond == 1000
SecondsPerMinute == 60
MaxTicks == 6

\* offsets inside a minute: first ms and last ms of second 0, first ms of second 1
SecondOffsets == {0, MsPerSecond - 1, MsPerSecond}
\* time 0 and, in each later minute, the three offsets
Times == {0} \cup {m * MsPerMinute + o : m \in 1..MaxMinute, o \in SecondOffsets}
Prices == 1..MaxPrice
\* a webhook carries no numeric stoppx, or a stop price inside the price range
StopPrices == {Null, MaxPrice - 1}

Tokens == {1}
NiftyToken == CHOOSE t \in Tokens : TRUE
BinanceSymbol == "BTCUSDT"
TokenSymbol == "NIFTY"
UnknownSymbol == "XYZ"

\* instruments.json as loaded by fetchInstrumentMap: one exchange instrument
symbolLookup == [s \in {TokenSymbol} |-> NiftyToken]

\* (intent, side) pairs carried by webhook payloads
Payloads == {
  <<"ENTRY", NoString>>, <<"sell", NoString>>, <<"HOLD", "buy">>, <<"HOLD", NoString>> }

---------------------------------------------------------------------------
(* Map helpers (JavaScript Map get / set) *)

Has(m, k) == k \in DOMAIN m
GetOr(m, k, d) == IF k \in DOMAIN m THEN m[k] ELSE d
Put(m, k, v) == [x \in (DOMAIN m) \cup {k} |-> IF x = k THEN v ELSE m[x]]
EmptyMap == [x \in {} |-> Null]

---------------------------------------------------------------------------
(* TickFsmStateService *)

defaultFsm ==
  [ state |-> "NOSIGNAL",
    threshold |-> Null,
    savedBUYThreshold |-> Null,
    lastBUYThreshold |-> Null,
    lastSELLThreshold |-> Null,
    lastSignalAtMs |-> Null,
    lastCheckedAtMs |-> Null,
    lastBlockedAtMs |-> Null ]

\* String.prototype.toUpperCase on the strings the model uses
toUpperCase(s) ==
  CASE s = "buy" -> "BUY"
    [] s = "sell" -> "SELL"
    [] s = "entry" -> "ENTRY"
    [] s = "exit" -> "EXIT"
    [] s = "btcusdt" -> "BTCUSDT"
    [] OTHER -> s

\* `${x ?? ''}`
orEmpty(x) == IF x = NoString THEN "" ELSE x

\* String.prototype.trim on the strings the model uses
trim(s) ==
  CASE s = " sell " -> "sell"
    [] s = " " -> ""
    [] OTHER -> s

getSignalType(payload) ==
  LET intentCandidate == toUpperCase(orEmpty(payload.intent))
      sideCandidate == toUpperCase(orEmpty(payload.side))
  IN  IF intentCandidate = "BUY" THEN "BUY"
      ELSE IF intentCandidate = "SELL" THEN "SELL"
      ELSE IF intentCandidate = "ENTRY" THEN "BUY"
      ELSE IF intentCandidate = "EXIT" THEN "SELL"
      ELSE IF sideCandidate = "BUY" THEN "BUY"
      ELSE IF sideCandidate = "SELL" THEN "SELL"
      ELSE "NONE"

isBinanceSymbol(symbol) == symbol # NoString /\ toUpperCase(symbol) = "BTCUSDT"

getTokenForSymbol(symbol, lookup) ==
  IF symbol = NoString \/ symbol = "" THEN Null ELSE GetOr(lookup, symbol, Null)

getBinanceFallbackLtp(symbol, latestBySymbol) ==
  IF symbol = NoString \/ symbol = "" THEN Null ELSE GetOr(latestBySymbol, symbol, Null)

getInstrumentToken(tick) == tick.instrument_token
getTickLtp(tick) == tick.last_price

Minute(ms) == ms \div MsPerMinute
\* new Date(ms).getSeconds()
getSeconds(ms) == (ms \div MsPerSecond) % SecondsPerMinute

\* a signal that leaves a blocked instrument alone (honours the cooldown)
applySignalTransition_HonoursCooldown(current, signal, payload, latestLtp, receivedAt) ==
  IF signal = "NONE" \/ current.state = "NOPOSITION_BLOCKED" THEN current
  ELSE [ state |-> "NOPOSITION_SIGNAL",
         threshold |-> IF signal = "BUY" THEN payload.stoppx ELSE latestLtp,
         savedBUYThreshold |-> IF signal = "BUY" THEN payload.stoppx ELSE current.savedBUYThreshold,
         lastBUYThreshold |-> IF signal = "BUY" THEN payload.stoppx ELSE current.lastBUYThreshold,
         lastSELLThreshold |-> IF signal = "BUY" THEN current.lastSELLThreshold ELSE latestLtp,
         lastSignalAtMs |-> receivedAt,
         lastCheckedAtMs |-> Null,
         lastBlockedAtMs |-> Null ]

\* a signal that forgets to reset lastCheckedAtMs
applySignalTransition_KeepsChecked(current, signal, payload, latestLtp, receivedAt) ==
  IF signal = "NONE" THEN current
  ELSE [ state |-> "NOPOSITION_SIGNAL",
         threshold |-> IF signal = "BUY" THEN payload.stoppx ELSE latestLtp,
         savedBUYThreshold |-> IF signal = "BUY" THEN payload.stoppx ELSE current.savedBUYThreshold,
         lastBUYThreshold |-> IF signal = "BUY" THEN payload.stoppx ELSE current.lastBUYThreshold,
         lastSELLThreshold |-> IF signal = "BUY" THEN current.lastSELLThreshold ELSE latestLtp,
         lastSignalAtMs |-> receivedAt,
         lastCheckedAtMs |-> current.lastCheckedAtMs,
         lastBlockedAtMs |-> Null ]

\* a signal without a direction arming the instrument like a SELL
applySignalTransition_ArmsWithoutDirection(current, signal, payload, latestLtp, receivedAt) ==
  IF signal = "BUY" THEN
    [ state |-> "NOPOSITION_SIGNAL",
      threshold |-> payload.stoppx,
      savedBUYThreshold |-> payload.stoppx,
      lastBUYThreshold |-> payload.stoppx,
      lastSELLThreshold |-> current.lastSELLThreshold,
      lastSignalAtMs |-> receivedAt,
      lastCheckedAtMs |-> Null,
      lastBlockedAtMs |-> Null ]
  ELSE
    [ state |-> "NOPOSITION_SIGNAL",
      threshold |-> latestLtp,
      savedBUYThreshold |-> current.savedBUYThreshold,
      lastBUYThreshold |-> current.lastBUYThreshold,
      lastSELLThreshold |-> latestLtp,
      lastSignalAtMs |-> receivedAt,
      lastCheckedAtMs |-> Null,
      lastBlockedAtMs |-> Null ]

\* a signal that compares the price known at signal time right away
applySignalTransition_ComparesKnownPrice(current, signal, payload, latestLtp, receivedAt) ==
  IF signal = "NONE" THEN current
  ELSE LET threshold == IF signal = "BUY" THEN payload.stoppx ELSE latestLtp
           compared == threshold # Null /\ latestLtp # Null
           entered == compared /\ latestLtp > threshold
       IN  [ state |-> IF ~compared THEN "NOPOSITION_SIGNAL"
                       ELSE IF entered THEN "BUYPOSITION" ELSE "NOPOSITION_BLOCKED",
             threshold |-> threshold,
             savedBUYThreshold |-> IF signal = "BUY" THEN payload.stoppx
                                   ELSE current.savedBUYThreshold,
             lastBUYThreshold |-> IF signal = "BUY" THEN payload.stoppx
                                  ELSE current.lastBUYThreshold,
             lastSELLThreshold |-> IF signal = "BUY" THEN current.lastSELLThreshold
                                   ELSE latestLtp,
             lastSignalAtMs |-> receivedAt,
             lastCheckedAtMs |-> IF compared THEN receivedAt ELSE Null,
             lastBlockedAtMs |-> IF compared /\ ~entered THEN receivedAt ELSE Null ]

\* a SELL that also overwrites the BUY thresholds
applySignalTransition_SellOverwritesBuy(current, signal, payload, latestLtp, receivedAt) ==
  IF signal = "NONE" THEN current
  ELSE LET threshold == IF signal = "BUY" THEN payload.stoppx ELSE latestLtp
       IN  [ state |-> "NOPOSITION_SIGNAL",
             threshold |-> threshold,
             savedBUYThreshold |-> threshold,
             lastBUYThreshold |-> threshold,
             lastSELLThreshold |-> IF signal = "BUY" THEN current.lastSELLThreshold
                                   ELSE latestLtp,
             lastSignalAtMs |-> receivedAt,
             lastCheckedAtMs |-> Null,
             lastBlockedAtMs |-> Null ]

applySignalTransition(current, signal, payload, latestLtp, receivedAt) ==
  IF signal = "NONE" THEN current
  ELSE IF signal = "BUY" THEN
    [ state |-> "NOPOSITION_SIGNAL",
      threshold |-> payload.stoppx,
      savedBUYThreshold |-> payload.stoppx,
      lastBUYThreshold |-> payload.stoppx,
      lastSELLThreshold |-> current.lastSELLThreshold,
      lastSignalAtMs |-> receivedAt,
      lastCheckedAtMs |-> Null,
      lastBlockedAtMs |-> Null ]
  ELSE
    [ state |-> "NOPOSITION_SIGNAL",
      threshold |-> latestLtp,
      savedBUYThreshold |-> current.savedBUYThreshold,
      lastBUYThreshold |-> current.lastBUYThreshold,
      lastSELLThreshold |-> latestLtp,
      lastSignalAtMs |-> receivedAt,
      lastCheckedAtMs |-> Null,
      lastBlockedAtMs |-> Null ]

\* a price check that also enters at the threshold
checkedState_EntersAtThreshold(ltp, threshold) ==
  IF ltp >= threshold THEN "BUYPOSITION" ELSE "NOPOSITION_BLOCKED"

\* a price check that forgets the signal when the price is not above the threshold
checkedState_ResetsWhenBelow(ltp, threshold) ==
  IF ltp > threshold THEN "BUYPOSITION" ELSE "NOSIGNAL"

\* the state a price check lands in
checkedState(ltp, threshold) ==
  IF ltp > threshold THEN "BUYPOSITION" ELSE "NOPOSITION_BLOCKED"

\* isFirstSecondNextMinute without the second-0 test (any time in a later minute)
isFirstSecondNextMinute_AnySecond(anchorAtMs, tickAtMs) ==
  IF anchorAtMs = Null THEN FALSE
  ELSE Minute(tickAtMs) > Minute(anchorAtMs)

isFirstSecondNextMinute(anchorAtMs, tickAtMs) ==
  IF anchorAtMs = Null THEN FALSE
  ELSE IF Minute(tickAtMs) <= Minute(anchorAtMs) THEN FALSE
  ELSE getSeconds(tickAtMs) = 0

\* TickTransitionResult: intermediate is <<>> when absent
NoChange(current) == [next |-> current, intermediate |-> <<>>]

\* price rules that look at the price once per signal, in position as well
evaluatePrice_ChecksOncePerSignal(current, ltp, receivedAt) ==
  IF current.state \in {"BUYPOSITION", "NOPOSITION_SIGNAL"} THEN
    IF current.lastCheckedAtMs # Null /\ current.lastCheckedAtMs >= current.lastSignalAtMs
    THEN NoChange(current)
    ELSE LET nextState == checkedState(ltp, current.threshold)
         IN [next |-> [current EXCEPT !.state = nextState,
                                      !.lastCheckedAtMs = receivedAt,
                                      !.lastBlockedAtMs =
                                         IF nextState = "NOPOSITION_BLOCKED" THEN receivedAt ELSE Null],
             intermediate |-> <<>>]
  ELSE IF current.state = "NOPOSITION_BLOCKED" THEN
    IF ~isFirstSecondNextMinute(current.lastBlockedAtMs, receivedAt)
    THEN NoChange(current)
    ELSE LET intermediate == [current EXCEPT !.state = "NOPOSITION_SIGNAL",
                                             !.lastSignalAtMs = receivedAt,
                                             !.lastCheckedAtMs = Null,
                                             !.lastBlockedAtMs = Null]
             nextState == checkedState(ltp, current.threshold)
         IN [next |-> [intermediate EXCEPT !.state = nextState,
                                           !.lastCheckedAtMs = receivedAt,
                                           !.lastBlockedAtMs =
                                              IF nextState = "NOPOSITION_BLOCKED" THEN receivedAt ELSE Null],
             intermediate |-> <<intermediate>>]
  ELSE NoChange(current)

\* applyTickTransition after its null guard: the per-state price rules
evaluatePrice(current, ltp, receivedAt) ==
  IF current.state = "BUYPOSITION" THEN
    IF ltp >= current.threshold
    THEN NoChange(current)
    ELSE [next |-> [current EXCEPT !.state = "NOPOSITION_BLOCKED",
                                   !.lastCheckedAtMs = receivedAt,
                                   !.lastBlockedAtMs = receivedAt],
          intermediate |-> <<>>]
  ELSE IF current.state = "NOPOSITION_SIGNAL" THEN
    IF current.lastCheckedAtMs # Null /\ current.lastCheckedAtMs >= current.lastSignalAtMs
    THEN NoChange(current)
    ELSE LET nextState == checkedState(ltp, current.threshold)
         IN [next |-> [current EXCEPT !.state = nextState,
                                      !.lastCheckedAtMs = receivedAt,
                                      !.lastBlockedAtMs =
                                         IF nextState = "NOPOSITION_BLOCKED" THEN receivedAt ELSE Null],
             intermediate |-> <<>>]
  ELSE IF current.state = "NOPOSITION_BLOCKED" THEN
    IF ~isFirstSecondNextMinute(current.lastBlockedAtMs, receivedAt)
    THEN NoChange(current)
    ELSE LET intermediate == [current EXCEPT !.state = "NOPOSITION_SIGNAL",
                                             !.lastSignalAtMs = receivedAt,
                                             !.lastCheckedAtMs = Null,
                                             !.lastBlockedAtMs = Null]
             nextState == checkedState(ltp, current.threshold)
             finalState == [intermediate EXCEPT !.state = nextState,
                                                !.lastCheckedAtMs = receivedAt,
                                                !.lastBlockedAtMs =
                                                   IF nextState = "NOPOSITION_BLOCKED" THEN receivedAt ELSE Null]
         IN [next |-> finalState, intermediate |-> <<intermediate>>]
  ELSE NoChange(current)

\* applyTickTransition without the null-threshold test of its guard
applyTickTransition_NoThresholdGuard(current, ltp, receivedAt) ==
  IF current.lastSignalAtMs = Null \/ ltp = Null
  THEN NoChange(current)
  ELSE evaluatePrice(current, ltp, receivedAt)

\* applyTickTransition guarding against a missing price only
applyTickTransition_GuardsPriceOnly(current, ltp, receivedAt) ==
  IF ltp = Null THEN NoChange(current) ELSE evaluatePrice(current, ltp, receivedAt)

applyTickTransition(current, ltp, receivedAt) ==
  IF current.threshold = Null \/ current.lastSignalAtMs = Null \/ ltp = Null
  THEN NoChange(current)
  ELSE evaluatePrice(current, ltp, receivedAt)

\* the console lines of one logFsmTransition call (none when nothing changed)
logFsmTransition(source, symbol, prev, next, ltp, receivedAt) ==
  IF prev.state = next.state /\ prev.threshold = next.threshold THEN <<>>
  ELSE << [ source |-> source,
            symbol |-> IF symbol = NoString THEN "--" ELSE symbol,
            prevState |-> prev.state,
            nextState |-> next.state,
            threshold |-> next.threshold,
            ltp |-> ltp,
            at |-> receivedAt ] >>

\* logging only the end-to-end change of a TickTransitionResult
logResult_FinalOnly(source, symbol, existing, result, ltp, receivedAt) ==
  logFsmTransition(source, symbol, existing, result.next, ltp, receivedAt)

\* the log calls made for one TickTransitionResult
logResult(source, symbol, existing, result, ltp, receivedAt) ==
  IF result.intermediate # <<>>
  THEN logFsmTransition(source, symbol, existing, result.intermediate[1], ltp, receivedAt)
       \o logFsmTransition(source, symbol, result.intermediate[1], result.next, ltp, receivedAt)
  ELSE logFsmTransition(source, symbol, existing, result.next, ltp, receivedAt)

updateTicks(list, tick, token) ==
  LET filtered == IF token = Null THEN list
                  ELSE SelectSeq(list, LAMBDA existing : getInstrumentToken(existing) # token)
      all == <<tick>> \o filtered
  IN  SubSeq(all, 1, IF Len(all) < MaxTicks THEN Len(all) ELSE MaxTicks)

\* bookkeeping of the event stream (not part of TickState): the event's kind and
\* timestamp, the price it carried and the direction getSignalType gave it
Stamp(type, receivedAt, ltp, signal) ==
  /\ lastEvent' = [type |-> type, receivedAt |-> receivedAt, ltp |-> ltp, signal |-> signal]
  /\ inOrder' = (inOrder /\ receivedAt >= lastEvent.receivedAt)

\* a tick whose price is also run through every feed symbol's record
ReduceTick_Broadcast(tick, receivedAt) ==
  LET token == getInstrumentToken(tick)
      tickLtp == getTickLtp(tick)
      existing == GetOr(fsmByToken, token, defaultFsm)
      result == applyTickTransition(existing, tickLtp, receivedAt)
  IN  /\ ticks' = updateTicks(ticks, tick, token)
      /\ latestLtpByToken' = IF token # Null /\ tickLtp # Null
                             THEN Put(latestLtpByToken, token, tickLtp)
                             ELSE latestLtpByToken
      /\ fsmByToken' = IF token # Null THEN Put(fsmByToken, token, result.next) ELSE fsmByToken
      /\ fsmBySymbol' = [s \in DOMAIN fsmBySymbol |->
                           applyTickTransition(fsmBySymbol[s], tickLtp, receivedAt).next]
      /\ lastLog' = IF token # Null
                    THEN logResult("tick", NoString, existing, result, tickLtp, receivedAt)
                    ELSE <<>>
      /\ UNCHANGED latestBinanceBySymbol
      /\ Stamp("tick", receivedAt, tickLtp, "NONE")

\* reduceTickState, event.type === 'tick'
ReduceTick(tick, receivedAt) ==
  LET token == getInstrumentToken(tick)
      tickLtp == getTickLtp(tick)
      existing == GetOr(fsmByToken, token, defaultFsm)
      result == applyTickTransition(existing, tickLtp, receivedAt)
  IN  /\ ticks' = updateTicks(ticks, tick, token)
      /\ latestLtpByToken' = IF token # Null /\ tickLtp # Null
                             THEN Put(latestLtpByToken, token, tickLtp)
                             ELSE latestLtpByToken
      /\ fsmByToken' = IF token # Null THEN Put(fsmByToken, token, result.next) ELSE fsmByToken
      /\ lastLog' = IF token # Null
                    THEN logResult("tick", NoString, existing, result, tickLtp, receivedAt)
                    ELSE <<>>
      /\ UNCHANGED <<latestBinanceBySymbol, fsmBySymbol>>
      /\ Stamp("tick", receivedAt, tickLtp, "NONE")

\* reduceTickState, event.type === 'signal'; event.token is set by initStateStream
ReduceSignal(payload, receivedAt) ==
  LET signal == getSignalType(payload)
      token == IF isBinanceSymbol(payload.symbol) THEN Null
               ELSE getTokenForSymbol(payload.symbol, symbolLookup)
  IN  /\ IF isBinanceSymbol(payload.symbol) THEN
           LET existing == GetOr(fsmBySymbol, payload.symbol, defaultFsm)
               binanceFallback == getBinanceFallbackLtp(payload.symbol, latestBinanceBySymbol)
               next == applySignalTransition(existing, signal, payload, binanceFallback, receivedAt)
           IN  /\ fsmBySymbol' = Put(fsmBySymbol, payload.symbol, next)
               /\ lastLog' = logFsmTransition("signal", payload.symbol, existing, next,
                                              binanceFallback, receivedAt)
               /\ UNCHANGED fsmByToken
         ELSE IF token = Null THEN
           /\ lastLog' = <<>>
           /\ UNCHANGED <<fsmByToken, fsmBySymbol>>
         ELSE
           LET existing == GetOr(fsmByToken, token, defaultFsm)
               latestLtp == GetOr(latestLtpByToken, token, Null)
               next == applySignalTransition(existing, signal, payload, latestLtp, receivedAt)
           IN  /\ fsmByToken' = Put(fsmByToken, token, next)
               /\ lastLog' = logFsmTransition("signal", payload.symbol, existing, next,
                                              latestLtp, receivedAt)
               /\ UNCHANGED fsmBySymbol
      /\ UNCHANGED <<ticks, latestLtpByToken, latestBinanceBySymbol>>
      /\ Stamp("signal", receivedAt, Null, signal)

\* the transition of a price that never lifts a block
applyTickTransition_NoReactivation(current, ltp, receivedAt) ==
  IF current.state = "NOPOSITION_BLOCKED" THEN NoChange(current)
  ELSE applyTickTransition(current, ltp, receivedAt)

\* a feed branch with a transition of its own: feed prices never lift a block
ReduceBinance_OwnTransition(payload, receivedAt) ==
  LET token == IF isBinanceSymbol(payload.symbol) THEN Null
               ELSE getTokenForSymbol(payload.symbol, symbolLookup)
      symbol == orEmpty(payload.symbol)
      price == payload.price
      logSymbol == IF symbol = "" THEN NoString ELSE symbol
  IN  /\ IF (token = Null /\ symbol = "") \/ price = Null THEN
           /\ lastLog' = <<>>
           /\ UNCHANGED <<latestLtpByToken, latestBinanceBySymbol, fsmByToken, fsmBySymbol>>
         ELSE
           LET existingT == GetOr(fsmByToken, token, defaultFsm)
               resultT == applyTickTransition_NoReactivation(existingT, price, receivedAt)
               existingS == GetOr(fsmBySymbol, symbol, defaultFsm)
               resultS == applyTickTransition_NoReactivation(existingS, price, receivedAt)
           IN  /\ latestLtpByToken' = IF token # Null THEN Put(latestLtpByToken, token, price)
                                      ELSE latestLtpByToken
               /\ latestBinanceBySymbol' = IF symbol # "" THEN Put(latestBinanceBySymbol, symbol, price)
                                           ELSE latestBinanceBySymbol
               /\ fsmByToken' = IF token # Null THEN Put(fsmByToken, token, resultT.next)
                                ELSE fsmByToken
               /\ fsmBySymbol' = IF isBinanceSymbol(symbol) THEN Put(fsmBySymbol, symbol, resultS.next)
                                 ELSE fsmBySymbol
               /\ lastLog' =
                    (IF token # Null
                     THEN logResult("tick", logSymbol, existingT, resultT, price, receivedAt)
                     ELSE <<>>)
                    \o
                    (IF isBinanceSymbol(symbol)
                     THEN logResult("binance", symbol, existingS, resultS, price, receivedAt)
                     ELSE <<>>)
      /\ UNCHANGED ticks
      /\ Stamp("binance", receivedAt, price, "NONE")

\* reduceTickState, event.type === 'binance'; event.token is set by initStateStream
ReduceBinance(payload, receivedAt) ==
  LET token == IF isBinanceSymbol(payload.symbol) THEN Null
               ELSE getTokenForSymbol(payload.symbol, symbolLookup)
      symbol == orEmpty(payload.symbol)
      price == payload.price
      logSymbol == IF symbol = "" THEN NoString ELSE symbol
  IN  /\ IF (token = Null /\ symbol = "") \/ price = Null THEN
           /\ lastLog' = <<>>
           /\ UNCHANGED <<latestLtpByToken, latestBinanceBySymbol, fsmByToken, fsmBySymbol>>
         ELSE
           LET existingT == GetOr(fsmByToken, token, defaultFsm)
               resultT == applyTickTransition(existingT, price, receivedAt)
               existingS == GetOr(fsmBySymbol, symbol, defaultFsm)
               resultS == applyTickTransition(existingS, price, receivedAt)
           IN  /\ latestLtpByToken' = IF token # Null THEN Put(latestLtpByToken, token, price)
                                      ELSE latestLtpByToken
               /\ latestBinanceBySymbol' = IF symbol # "" THEN Put(latestBinanceBySymbol, symbol, price)
                                           ELSE latestBinanceBySymbol
               /\ fsmByToken' = IF token # Null THEN Put(fsmByToken, token, resultT.next)
                                ELSE fsmByToken
               /\ fsmBySymbol' = IF isBinanceSymbol(symbol) THEN Put(fsmBySymbol, symbol, resultS.next)
                                 ELSE fsmBySymbol
               /\ lastLog' =
                    (IF token # Null
                     THEN logResult("tick", logSymbol, existingT, resultT, price, receivedAt)
                     ELSE <<>>)
                    \o
                    (IF isBinanceSymbol(symbol)
                     THEN logResult("binance", symbol, existingS, resultS, price, receivedAt)
                     ELSE <<>>)
      /\ UNCHANGED ticks
      /\ Stamp("binance", receivedAt, price, "NONE")

\* InstrumentLookup.tokenSymbols as built by buildMapFromMeta
tokenSymbols == [k \in {NiftyToken} |-> {TokenSymbol}]

\* one entry of the Map built by buildFsmSnapshot
fsmSymbolSnapshot(fsm, ltp) ==
  [ state |-> fsm.state,
    ltp |-> ltp,
    threshold |-> fsm.threshold,
    lastBUYThreshold |-> fsm.lastBUYThreshold,
    lastSELLThreshold |-> fsm.lastSELLThreshold ]

\* buildFsmSnapshot: the entries of fsmByToken under each of the token's symbols,
\* then the entries of fsmBySymbol (which overwrite an equal key)
buildFsmSnapshot(byToken, bySymbol, ltpByToken, binanceBySymbol) ==
  LET tokensOf(symbol) ==
        {k \in DOMAIN byToken : symbol \in GetOr(tokenSymbols, k, {})}
      fromTokens == UNION {GetOr(tokenSymbols, k, {}) : k \in DOMAIN byToken}
  IN  [ symbol \in fromTokens \cup DOMAIN bySymbol |->
          IF symbol \in DOMAIN bySymbol
          THEN fsmSymbolSnapshot(bySymbol[symbol], GetOr(binanceBySymbol, symbol, Null))
          ELSE LET token == CHOOSE k \in tokensOf(symbol) : TRUE
               IN  fsmSymbolSnapshot(byToken[token], GetOr(ltpByToken, token, Null)) ]

---------------------------------------------------------------------------
(* PaperToLiveService (src/unnamed/part_007)                                 *)
(* Every method is an operator from the service's fields, gathered in a      *)
(* record w = [stateBySymbol, liveTrades, liveMode, blockedUntil, sent], to  *)
(* the fields after the call; t is the value Date.now() has during the call. *)
(* An optional object (openTrade, pendingPaperTrade) is <<>> or <<object>>.  *)

OPEN_THRESHOLD == 4
CLOSE_THRESHOLD == -1
MaxLiveTradeRows == 50
IstOffsetMs == 19800000

\* toLocaleString('en-IN', {timeZone: 'Asia/Kolkata', hour12: false}): the wall
\* clock of UTC+05:30 printed to the second
formatIstTime(ms) == (ms + IstOffsetMs) \div MsPerSecond

\* array.slice(0, n)
Slice(list, n) == SubSeq(list, 1, IF Len(list) < n THEN Len(list) ELSE n)

defaultLiveState ==
  [ state |-> "NO_POSITION",
    openTrade |-> <<>>,
    trades |-> <<>>,
    cumulativePnl |-> 0,
    unrealizedPnl |-> 0,
    blockedAtMs |-> Null,
    pendingPaperTrade |-> <<>> ]

getOrCreateState(w, symbol) ==
  IF Has(w.stateBySymbol, symbol) THEN w
  ELSE [w EXCEPT !.stateBySymbol = Put(@, symbol, defaultLiveState)]

\* a cooldown that already expires inside the minute of its anchor
PaperToLive_isFirstSecondNextMinute_SameMinute(anchorAtMs, tickAtMs) ==
  Minute(tickAtMs) >= Minute(anchorAtMs)

PaperToLive_isFirstSecondNextMinute(anchorAtMs, tickAtMs) ==
  Minute(tickAtMs) > Minute(anchorAtMs)

\* the fetch of sendLiveWebhookMessage: one order notification leaves the service
sendLiveWebhookMessage(w, kind, symbol, refPrice) ==
  [w EXCEPT !.sent = Append(@, [kind |-> kind, symbol |-> symbol, refPrice |-> refPrice])]

\* what becomes of the fetch of one notification: a 2xx response, an error
\* response, a response whose body is not JSON, or a rejected fetch
FetchOutcomes == {"ok", "error_response", "invalid_body", "network_error"}

\* a request whose failure closes the position it announced
settleLiveWebhookMessage_RollsBack(w, request, outcome) ==
  [ world |-> IF outcome = "ok" \/ request.symbol \notin DOMAIN w.stateBySymbol THEN w
              ELSE [w EXCEPT !.stateBySymbol[request.symbol].state = "NO_POSITION",
                             !.stateBySymbol[request.symbol].openTrade = <<>>],
    line |-> IF outcome = "ok" THEN "log: Live signal sent successfully via backend"
             ELSE "error: Failed to send live signal",
    rejected |-> FALSE ]

\* the rest of sendLiveWebhookMessage, run when the fetch settles: the console
\* line written, the fields of the service, and whether the returned promise
\* rejects
settleLiveWebhookMessage(w, request, outcome) ==
  [ world |-> w,
    line |-> CASE outcome = "ok" -> "log: Live signal sent successfully via backend"
               [] outcome = "error_response" -> "error: Backend responded with error"
               [] OTHER -> "error: Failed to send live signal",
    rejected |-> FALSE ]

emitUpdates(w, symbol, t) ==
  LET state == w.stateBySymbol[symbol]
      totalPnl == state.cumulativePnl + state.unrealizedPnl
      isBlocked == state.blockedAtMs # Null
                     /\ ~PaperToLive_isFirstSecondNextMinute(state.blockedAtMs, t)
  IN  [w EXCEPT
         !.liveTrades = Put(@, symbol, state.trades),
         !.liveMode = Put(@, symbol, totalPnl > OPEN_THRESHOLD /\ ~isBlocked),
         !.blockedUntil = Put(@, symbol,
            IF state.blockedAtMs # Null
              THEN (Minute(state.blockedAtMs) + 1) * MsPerMinute
              ELSE Null)]

\* the state object of a symbol with some of its fields assigned
SetState(w, symbol, state) == [w EXCEPT !.stateBySymbol = Put(@, symbol, state)]

openLiveTrade(w, symbol, entryPrice, quantity, lot, t) ==
  LET state == w.stateBySymbol[symbol]
      id == [prefix |-> "live", symbol |-> symbol, at |-> t, suffix |-> ""]
      timeIst == formatIstTime(t)
      openTrade == [id |-> id, symbol |-> symbol, entryPrice |-> entryPrice,
                    quantity |-> quantity, lot |-> lot, timeIst |-> timeIst]
      tradeRow == [id |-> id, timeIst |-> timeIst, symbol |-> symbol, action |-> "ENTRY",
                   entryPrice |-> entryPrice, exitPrice |-> Null, quantity |-> quantity,
                   realizedPnl |-> Null, cumulativePnl |-> state.cumulativePnl]
      opened == [state EXCEPT
                   !.openTrade = <<openTrade>>,
                   !.state = "POSITION",
                   !.trades = Slice(<<tradeRow>> \o @, MaxLiveTradeRows)]
  IN  sendLiveWebhookMessage(emitUpdates(SetState(w, symbol, opened), symbol, t),
                             "ENTRY", symbol, entryPrice)

\* the EXIT row both closing paths build
liveExitRow(symbol, state, exitPrice, t) ==
  LET openTrade == state.openTrade[1]
  IN  [id |-> [openTrade.id EXCEPT !.suffix = "-exit"],
       timeIst |-> formatIstTime(t),
       symbol |-> symbol,
       action |-> "EXIT",
       entryPrice |-> openTrade.entryPrice,
       exitPrice |-> exitPrice,
       quantity |-> openTrade.quantity,
       realizedPnl |-> (exitPrice - openTrade.entryPrice) * openTrade.quantity * openTrade.lot,
       cumulativePnl |-> state.cumulativePnl]

\* a close that folds the trade's realized PnL into the live cumulativePnl
closeLiveTradeInternal_AddsRealized(w, symbol, exitPrice, t) ==
  LET state == w.stateBySymbol[symbol]
  IN  IF state.openTrade = <<>> THEN w
      ELSE LET row == liveExitRow(symbol, state, exitPrice, t)
               closed == [state EXCEPT
                            !.trades = Slice(<<row>> \o @, MaxLiveTradeRows),
                            !.openTrade = <<>>,
                            !.state = "NO_POSITION",
                            !.cumulativePnl = @ + row.realizedPnl,
                            !.blockedAtMs = t]
           IN  sendLiveWebhookMessage(SetState(w, symbol, closed), "EXIT", symbol, exitPrice)

closeLiveTradeInternal_ClearsPending(w, symbol, exitPrice, t) ==
  LET state == w.stateBySymbol[symbol]
  IN  IF state.openTrade = <<>> THEN w
      ELSE LET closed == [state EXCEPT
                            !.trades = Slice(<<liveExitRow(symbol, state, exitPrice, t)>> \o @,
                                             MaxLiveTradeRows),
                            !.openTrade = <<>>,
                            !.state = "NO_POSITION",
                            !.blockedAtMs = t,
                            !.pendingPaperTrade = <<>>]
           IN  sendLiveWebhookMessage(SetState(w, symbol, closed), "EXIT", symbol, exitPrice)

closeLiveTradeInternal(w, symbol, exitPrice, t) ==
  LET state == w.stateBySymbol[symbol]
  IN  IF state.openTrade = <<>> THEN w
      ELSE LET closed == [state EXCEPT
                            !.trades = Slice(<<liveExitRow(symbol, state, exitPrice, t)>> \o @,
                                             MaxLiveTradeRows),
                            !.openTrade = <<>>,
                            !.state = "NO_POSITION",
                            !.blockedAtMs = t]
           IN  sendLiveWebhookMessage(SetState(w, symbol, closed), "EXIT", symbol, exitPrice)

updateCumulativePnl(w0, symbol, paperCumulativePnl, t) ==
  LET w == getOrCreateState(w0, symbol)
      state == w.stateBySymbol[symbol]
      totalBefore == state.cumulativePnl + state.unrealizedPnl
      totalAfter == paperCumulativePnl + 0
      wasActive == totalBefore > 0
      isActive == totalAfter > 0
      next == [state EXCEPT
                 !.cumulativePnl = paperCumulativePnl,
                 !.unrealizedPnl = 0,
                 !.blockedAtMs = IF wasActive /\ ~isActive THEN t
                                 ELSE IF ~wasActive /\ isActive THEN Null
                                 ELSE @]
  IN  emitUpdates(SetState(w, symbol, next), symbol, t)

shouldProtectiveClose_AtZero(state, totalAfter) ==
  state.state = "POSITION" /\ state.openTrade # <<>> /\ totalAfter <= 0

\* line 241: the protective close is taken
shouldProtectiveClose(state, totalAfter) ==
  state.state = "POSITION" /\ state.openTrade # <<>> /\ totalAfter < CLOSE_THRESHOLD

canActivate_IgnoresCooldown(state, shouldActivate) ==
  /\ shouldActivate
  /\ state.pendingPaperTrade # <<>>
  /\ state.state = "NO_POSITION"

\* line 255: the mid-flight activation is taken
canActivate(state, shouldActivate) ==
  /\ shouldActivate
  /\ state.pendingPaperTrade # <<>>
  /\ state.state = "NO_POSITION"
  /\ state.blockedAtMs = Null

\* an update that activates on an upward crossing alone
updateUnrealizedPnl_ActivatesOnCrossingOnly(w0, symbol, unrealizedPnl, currentLtp, t) ==
  LET w1 == getOrCreateState(w0, symbol)
      s1 == w1.stateBySymbol[symbol]
      totalBefore == s1.cumulativePnl + s1.unrealizedPnl
      totalAfter == s1.cumulativePnl + unrealizedPnl
      wasAboveOpenThreshold == totalBefore > OPEN_THRESHOLD
      isAboveOpenThreshold == totalAfter > OPEN_THRESHOLD
      blockExpired == s1.blockedAtMs # Null
                        /\ PaperToLive_isFirstSecondNextMinute(s1.blockedAtMs, t)
      s2 == [s1 EXCEPT !.unrealizedPnl = unrealizedPnl,
                       !.blockedAtMs = IF blockExpired THEN Null ELSE @]
      w2 == SetState(w1, symbol, s2)
      w3 == IF shouldProtectiveClose(s2, totalAfter)
              THEN closeLiveTradeInternal(w2, symbol,
                     IF currentLtp # Null THEN currentLtp ELSE s2.openTrade[1].entryPrice, t)
              ELSE w2
      s3 == w3.stateBySymbol[symbol]
      shouldActivate == ~wasAboveOpenThreshold /\ isAboveOpenThreshold
      w4 == IF canActivate(s3, shouldActivate)
              THEN openLiveTrade(w3, symbol,
                     IF currentLtp # Null THEN currentLtp ELSE s3.pendingPaperTrade[1].entryPrice,
                     s3.pendingPaperTrade[1].quantity, s3.pendingPaperTrade[1].lot, t)
              ELSE w3
      s4 == w4.stateBySymbol[symbol]
      s5 == [s4 EXCEPT !.blockedAtMs =
               IF wasAboveOpenThreshold /\ ~isAboveOpenThreshold THEN t ELSE @]
  IN  emitUpdates(SetState(w4, symbol, s5), symbol, t)

updateUnrealizedPnl(w0, symbol, unrealizedPnl, currentLtp, t) ==
  LET w1 == getOrCreateState(w0, symbol)
      s1 == w1.stateBySymbol[symbol]
      totalBefore == s1.cumulativePnl + s1.unrealizedPnl
      totalAfter == s1.cumulativePnl + unrealizedPnl
      wasAboveOpenThreshold == totalBefore > OPEN_THRESHOLD
      isAboveOpenThreshold == totalAfter > OPEN_THRESHOLD
      blockExpired == s1.blockedAtMs # Null
                        /\ PaperToLive_isFirstSecondNextMinute(s1.blockedAtMs, t)
      s2 == [s1 EXCEPT !.unrealizedPnl = unrealizedPnl,
                       !.blockedAtMs = IF blockExpired THEN Null ELSE @]
      w2 == SetState(w1, symbol, s2)
      w3 == IF shouldProtectiveClose(s2, totalAfter)
              THEN closeLiveTradeInternal(w2, symbol,
                     IF currentLtp # Null THEN currentLtp ELSE s2.openTrade[1].entryPrice, t)
              ELSE w2
      s3 == w3.stateBySymbol[symbol]
      shouldActivate == (~wasAboveOpenThreshold /\ isAboveOpenThreshold)
                          \/ (blockExpired /\ isAboveOpenThreshold)
      w4 == IF canActivate(s3, shouldActivate)
              THEN openLiveTrade(w3, symbol,
                     IF currentLtp # Null THEN currentLtp ELSE s3.pendingPaperTrade[1].entryPrice,
                     s3.pendingPaperTrade[1].quantity, s3.pendingPaperTrade[1].lot, t)
              ELSE w3
      s4 == w4.stateBySymbol[symbol]
      s5 == [s4 EXCEPT !.blockedAtMs =
               IF wasAboveOpenThreshold /\ ~isAboveOpenThreshold THEN t ELSE @]
  IN  emitUpdates(SetState(w4, symbol, s5), symbol, t)

\* line 359: onPaperTradeOpen returns without opening
mustWait(state, totalPnl) == totalPnl <= OPEN_THRESHOLD \/ state.blockedAtMs # Null

\* a paper open that opens a live trade whatever the live state is
onPaperTradeOpen_OpensAgain(w0, symbol, entryPrice, quantity, lot, t) ==
  LET w1 == getOrCreateState(w0, symbol)
      s1 == w1.stateBySymbol[symbol]
      totalPnl == s1.cumulativePnl + s1.unrealizedPnl
      s2 == [s1 EXCEPT
               !.pendingPaperTrade = <<[entryPrice |-> entryPrice, quantity |-> quantity,
                                        lot |-> lot, openedAt |-> t]>>,
               !.blockedAtMs =
                  IF @ # Null /\ PaperToLive_isFirstSecondNextMinute(@, t) THEN Null ELSE @]
      w2 == SetState(w1, symbol, s2)
  IN  IF mustWait(s2, totalPnl) THEN w2
      ELSE openLiveTrade(w2, symbol, entryPrice, quantity, lot, t)

onPaperTradeOpen(w0, symbol, entryPrice, quantity, lot, t) ==
  LET w1 == getOrCreateState(w0, symbol)
      s1 == w1.stateBySymbol[symbol]
      totalPnl == s1.cumulativePnl + s1.unrealizedPnl
      s2 == [s1 EXCEPT
               !.pendingPaperTrade = <<[entryPrice |-> entryPrice, quantity |-> quantity,
                                        lot |-> lot, openedAt |-> t]>>,
               !.blockedAtMs =
                  IF @ # Null /\ PaperToLive_isFirstSecondNextMinute(@, t) THEN Null ELSE @]
      w2 == SetState(w1, symbol, s2)
  IN  IF mustWait(s2, totalPnl) THEN w2
      ELSE IF s2.state # "NO_POSITION" THEN w2
      ELSE openLiveTrade(w2, symbol, entryPrice, quantity, lot, t)

\* a paper close that leaves the live trade open while a cooldown is active
onPaperTradeClose_SkipsWhenBlocked(w, symbol, exitPrice, t) ==
  IF ~Has(w.stateBySymbol, symbol) THEN w
  ELSE LET s1 == [w.stateBySymbol[symbol] EXCEPT !.pendingPaperTrade = <<>>]
           w1 == SetState(w, symbol, s1)
       IN  IF s1.state # "POSITION" \/ s1.openTrade = <<>> \/ s1.blockedAtMs # Null THEN w1
           ELSE LET closed == [s1 EXCEPT
                                 !.trades = Slice(<<liveExitRow(symbol, s1, exitPrice, t)>> \o @,
                                                  MaxLiveTradeRows),
                                 !.openTrade = <<>>,
                                 !.state = "NO_POSITION"]
                IN  sendLiveWebhookMessage(
                      emitUpdates(SetState(w1, symbol, closed), symbol, t),
                      "EXIT", symbol, exitPrice)

onPaperTradeClose(w, symbol, exitPrice, t) ==
  IF ~Has(w.stateBySymbol, symbol) THEN w
  ELSE LET s1 == [w.stateBySymbol[symbol] EXCEPT !.pendingPaperTrade = <<>>]
           w1 == SetState(w, symbol, s1)
       IN  IF s1.state # "POSITION" \/ s1.openTrade = <<>> THEN w1
           ELSE LET closed == [s1 EXCEPT
                                 !.trades = Slice(<<liveExitRow(symbol, s1, exitPrice, t)>> \o @,
                                                  MaxLiveTradeRows),
                                 !.openTrade = <<>>,
                                 !.state = "NO_POSITION"]
                IN  sendLiveWebhookMessage(
                      emitUpdates(SetState(w1, symbol, closed), symbol, t),
                      "EXIT", symbol, exitPrice)

clearTrades(w, symbol, t) ==
  IF ~Has(w.stateBySymbol, symbol) THEN w
  ELSE emitUpdates(
         SetState(w, symbol, [w.stateBySymbol[symbol] EXCEPT
                                !.trades = <<>>, !.openTrade = <<>>, !.state = "NO_POSITION"]),
         symbol, t)

clearAll(w) ==
  [w EXCEPT !.stateBySymbol = EmptyMap, !.liveTrades = EmptyMap,
            !.liveMode = EmptyMap, !.blockedUntil = EmptyMap]

---------------------------------------------------------------------------
(* WebhookStateService: the paper ledger (reduceTradeState)                  *)
(* A snapshot is the list of the entries of the Map handed to                *)
(* reduceTradeState, each <<symbol, [state, ltp]>>: the two fields of an     *)
(* FsmSymbolSnapshot the ledger reads.                                       *)

Notional == 100000
DefaultLot == 1
NiftyLot == 2

\* fetchLotLookup over instruments.json: the exchange instrument declares a lot
lotLookup == [s \in {TokenSymbol} |-> NiftyLot]

initialTradeState ==
  [ openBySymbol |-> EmptyMap,
    tradesBySymbol |-> EmptyMap,
    cumulativeBySymbol |-> EmptyMap,
    lastSnapshotBySymbol |-> EmptyMap ]

\* Math.ceil(a / b) for b > 0
Ceil(a, b) == 0 - ((0 - a) \div b)

\* !value for a number | null
isFalsy(value) == value = Null \/ value = 0

\* { ...row, ...patch }
Patched(row, patch) == [f \in DOMAIN row |-> IF f \in DOMAIN patch THEN patch[f] ELSE row[f]]

updateTradeRow(tradesBySymbol, symbol, id, patch) ==
  IF ~Has(tradesBySymbol, symbol) \/ Len(tradesBySymbol[symbol]) = 0 THEN tradesBySymbol
  ELSE LET rows == tradesBySymbol[symbol]
       IN  Put(tradesBySymbol, symbol,
               [i \in 1..Len(rows) |-> IF rows[i].id = id THEN Patched(rows[i], patch)
                                       ELSE rows[i]])

paperPnl_IgnoresLot(ltp, openTrade) == (ltp - openTrade.entryPrice) * openTrade.quantity

\* lines 264 and 276: (ltp - entryPrice) * quantity * lot
paperPnl(ltp, openTrade) ==
  (ltp - openTrade.entryPrice) * openTrade.quantity * openTrade.lot

\* line 277
closedCumulative(cumulativeBySymbol, symbol, realized) ==
  GetOr(cumulativeBySymbol, symbol, 0) + realized

\* lines 236-260: the isEntering branch
enterTrade(acc, symbol, ltp, lookup, t) ==
  LET st == acc.trade
      entryPrice == ltp
      lot == GetOr(lookup, symbol, DefaultLot)
      quantity == Ceil(Notional, lot * ltp)
      timeIst == formatIstTime(t)
      id == [symbol |-> symbol, at |-> t, suffix |-> ""]
      openTrade == [id |-> id, symbol |-> symbol, entryPrice |-> entryPrice,
                    quantity |-> quantity, lot |-> lot, timeIst |-> timeIst]
      row == [id |-> id, timeIst |-> timeIst, symbol |-> symbol, entryPrice |-> entryPrice,
              currentPrice |-> ltp, unrealizedPnl |-> 0,
              cumulativePnl |-> GetOr(st.cumulativeBySymbol, symbol, 0),
              quantity |-> quantity]
  IN  [trade |-> [st EXCEPT
                    !.openBySymbol = Put(@, symbol, openTrade),
                    !.tradesBySymbol = Put(@, symbol, <<row>> \o GetOr(@, symbol, <<>>))],
       live |-> onPaperTradeOpen(acc.live, symbol, entryPrice, quantity, lot, t)]

markTrade_FoldsIntoCumulative(acc, symbol, ltp, t) ==
  LET st == acc.trade
      openTrade == st.openBySymbol[symbol]
      pnl == paperPnl(ltp, openTrade)
  IN  [trade |-> [st EXCEPT
                    !.cumulativeBySymbol = Put(@, symbol, GetOr(@, symbol, 0) + pnl),
                    !.tradesBySymbol = updateTradeRow(@, symbol, openTrade.id,
                        [currentPrice |-> ltp, unrealizedPnl |-> pnl])],
       live |-> updateUnrealizedPnl(acc.live, symbol, pnl, ltp, t)]

\* lines 262-273: an open trade while the snapshot says BUYPOSITION
markTrade(acc, symbol, ltp, t) ==
  LET st == acc.trade
      openTrade == st.openBySymbol[symbol]
      pnl == paperPnl(ltp, openTrade)
  IN  [trade |-> [st EXCEPT
                    !.tradesBySymbol = updateTradeRow(@, symbol, openTrade.id,
                        [currentPrice |-> ltp, unrealizedPnl |-> pnl])],
       live |-> updateUnrealizedPnl(acc.live, symbol, pnl, ltp, t)]

\* lines 275-301: an open trade and the isExiting transition
exitTrade(acc, symbol, ltp, t) ==
  LET st == acc.trade
      openTrade == st.openBySymbol[symbol]
      realized == paperPnl(ltp, openTrade)
      cumulative == closedCumulative(st.cumulativeBySymbol, symbol, realized)
      patchedRows == updateTradeRow(st.tradesBySymbol, symbol, openTrade.id,
                        [currentPrice |-> ltp, unrealizedPnl |-> 0, cumulativePnl |-> cumulative])
      exitRow == [id |-> [openTrade.id EXCEPT !.suffix = "-exit"],
                  timeIst |-> formatIstTime(t), symbol |-> symbol,
                  entryPrice |-> openTrade.entryPrice, currentPrice |-> ltp,
                  unrealizedPnl |-> realized, cumulativePnl |-> cumulative,
                  quantity |-> openTrade.quantity]
  IN  [trade |-> [st EXCEPT
                    !.cumulativeBySymbol = Put(@, symbol, cumulative),
                    !.tradesBySymbol = Put(patchedRows, symbol,
                                           <<exitRow>> \o GetOr(patchedRows, symbol, <<>>)),
                    !.openBySymbol = [s \in (DOMAIN @) \ {symbol} |-> @[s]]],
       live |-> updateCumulativePnl(onPaperTradeClose(acc.live, symbol, ltp, t),
                                    symbol, cumulative, t)]

\* one iteration of the loop of lines 225-302
\* a ledger that enters on every BUYPOSITION snapshot, whatever the last one was
reduceSnapshotEntry_EntersOnEveryBuy(acc, symbol, current, lookup, t) ==
  LET st == acc.trade
      prevState == IF Has(st.lastSnapshotBySymbol, symbol)
                     THEN st.lastSnapshotBySymbol[symbol].state
                     ELSE "NOSIGNAL"
      seen == [acc EXCEPT !.trade.lastSnapshotBySymbol = Put(@, symbol, current)]
      ltp == current.ltp
      isExiting == prevState = "BUYPOSITION" /\ current.state # "BUYPOSITION"
  IN  IF isFalsy(ltp) THEN seen
      ELSE IF current.state = "BUYPOSITION" THEN enterTrade(seen, symbol, ltp, lookup, t)
      ELSE IF isExiting /\ Has(st.openBySymbol, symbol) THEN exitTrade(seen, symbol, ltp, t)
      ELSE seen

reduceSnapshotEntry(acc, symbol, current, lookup, t) ==
  LET st == acc.trade
      prevState == IF Has(st.lastSnapshotBySymbol, symbol)
                     THEN st.lastSnapshotBySymbol[symbol].state
                     ELSE "NOSIGNAL"
      seen == [acc EXCEPT !.trade.lastSnapshotBySymbol = Put(@, symbol, current)]
      ltp == current.ltp
      isEntering == prevState # "BUYPOSITION" /\ current.state = "BUYPOSITION"
      isExiting == prevState = "BUYPOSITION" /\ current.state # "BUYPOSITION"
      hasOpenTrade == Has(st.openBySymbol, symbol)
  IN  IF isFalsy(ltp) THEN seen
      ELSE IF isEntering THEN enterTrade(seen, symbol, ltp, lookup, t)
      ELSE IF hasOpenTrade /\ current.state = "BUYPOSITION" THEN markTrade(seen, symbol, ltp, t)
      ELSE IF hasOpenTrade /\ isExiting THEN exitTrade(seen, symbol, ltp, t)
      ELSE seen

RECURSIVE reduceTradeLoop(_, _, _, _)
reduceTradeLoop(acc, snapshot, lookup, t) ==
  IF snapshot = <<>> THEN acc
  ELSE reduceTradeLoop(
         reduceSnapshotEntry(acc, Head(snapshot)[1], Head(snapshot)[2], lookup, t),
         Tail(snapshot), lookup, t)

\* the next TradeState and, through the calls into PaperToLiveService, the next
\* live-mirror fields
reduceTradeState(state, snapshot, lookup, w, t) ==
  reduceTradeLoop([trade |-> state, live |-> w], snapshot, lookup, t)

---------------------------------------------------------------------------
(* WebhookStateService: the signal table and the alternation tracker         *)
(* (reduceSignalState).  null is NoString for a string and "NONE" for a      *)
(* direction; snapshot.get(symbol) is <<>> or <<FsmSymbolSnapshot>>.         *)

MaxSignalTableRows == 50

FilterModes == {"none", "btc"}
\* fetchAllowedSymbolsByMode: no filter for 'none' (null), the feed symbol for 'btc'
allowedSymbolsByMode == [mode \in FilterModes |->
                          IF mode = "btc" THEN <<{BinanceSymbol}>> ELSE <<>>]

initialSignalState ==
  [ bySymbol |-> EmptyMap,
    fsmBySymbol |-> EmptyMap,
    paperTradesBySymbol |-> EmptyMap,
    liveTradesBySymbol |-> EmptyMap,
    symbols |-> <<>> ]

defaultTracking ==
  [ lastSignal |-> "NONE",
    sellAfterBuyCount |-> 0,
    buyAfterSellCount |-> 0,
    alternateSignal |-> FALSE,
    buySellSell |-> FALSE,
    sellBuyBuy |-> FALSE ]

normalizeString(value) ==
  IF value = NoString THEN NoString
  ELSE IF trim(value) = "" THEN NoString
  ELSE trim(value)

\* `${intent ?? side ?? ''}`.toUpperCase() matched against BUY and SELL
WebhookState_getSignalType(intent, side) ==
  LET candidate == toUpperCase(IF intent # NoString THEN intent ELSE orEmpty(side))
  IN  IF candidate = "BUY" THEN "BUY"
      ELSE IF candidate = "SELL" THEN "SELL"
      ELSE "NONE"

\* a tracker that counts every SELL since the last BUY, and every BUY since the
\* last SELL
nextTracking_CountsRepeats(tracking, signal, snapshot) ==
  LET alternateSignalNow == tracking.lastSignal # "NONE" /\ signal # "NONE"
                            /\ tracking.lastSignal # signal
      alternateSignal == tracking.alternateSignal \/ alternateSignalNow
      sellAfterBuyCount ==
        IF signal = "SELL"
        THEN (IF tracking.lastSignal = "BUY" \/ tracking.sellAfterBuyCount > 0
              THEN tracking.sellAfterBuyCount + 1 ELSE 0)
        ELSE IF signal = "BUY" THEN 0
        ELSE tracking.sellAfterBuyCount
      buyAfterSellCount ==
        IF signal = "SELL" THEN 0
        ELSE IF signal = "BUY"
        THEN (IF tracking.lastSignal = "SELL" \/ tracking.buyAfterSellCount > 0
              THEN tracking.buyAfterSellCount + 1 ELSE 0)
        ELSE tracking.buyAfterSellCount
      snapshotLtp == IF snapshot = <<>> THEN Null ELSE snapshot[1].ltp
      canUseSnapshot == snapshot # <<>> /\ snapshot[1].state = "NOPOSITION_SIGNAL"
                        /\ snapshotLtp # Null
      buySellSellEligible == /\ signal = "SELL"
                             /\ sellAfterBuyCount >= 2
                             /\ canUseSnapshot
                             /\ snapshot[1].lastBUYThreshold # Null
                             /\ snapshotLtp < snapshot[1].lastBUYThreshold
      sellBuyBuyEligible == /\ signal = "BUY"
                            /\ buyAfterSellCount >= 2
                            /\ canUseSnapshot
                            /\ snapshot[1].lastSELLThreshold # Null
                            /\ snapshotLtp < snapshot[1].lastSELLThreshold
      buySellSell == tracking.buySellSell \/ buySellSellEligible
      sellBuyBuy == tracking.sellBuyBuy \/ sellBuyBuyEligible
  IN  [ state |-> [ lastSignal |-> IF signal # "NONE" THEN signal ELSE tracking.lastSignal,
                    sellAfterBuyCount |-> sellAfterBuyCount,
                    buyAfterSellCount |-> buyAfterSellCount,
                    alternateSignal |-> alternateSignal,
                    buySellSell |-> buySellSell,
                    sellBuyBuy |-> sellBuyBuy ],
        alternateSignal |-> alternateSignal,
        buySellSell |-> buySellSell,
        sellBuyBuy |-> sellBuyBuy ]

\* a tracker whose flags describe the current signal only
nextTracking_FlagsOfThisSignal(tracking, signal, snapshot) ==
  LET alternateSignal == tracking.lastSignal # "NONE" /\ signal # "NONE"
                         /\ tracking.lastSignal # signal
  IN  [ state |-> [ lastSignal |-> IF signal # "NONE" THEN signal ELSE tracking.lastSignal,
                    sellAfterBuyCount |-> tracking.sellAfterBuyCount,
                    buyAfterSellCount |-> tracking.buyAfterSellCount,
                    alternateSignal |-> alternateSignal,
                    buySellSell |-> FALSE,
                    sellBuyBuy |-> FALSE ],
        alternateSignal |-> alternateSignal,
        buySellSell |-> FALSE,
        sellBuyBuy |-> FALSE ]

nextTracking(tracking, signal, snapshot) ==
  LET alternateSignalNow == tracking.lastSignal # "NONE" /\ signal # "NONE"
                            /\ tracking.lastSignal # signal
      alternateSignal == tracking.alternateSignal \/ alternateSignalNow
      sellAfterBuyCount ==
        IF signal = "SELL"
        THEN (IF tracking.lastSignal = "BUY" THEN tracking.sellAfterBuyCount + 1 ELSE 0)
        ELSE IF signal = "BUY" THEN 0
        ELSE tracking.sellAfterBuyCount
      buyAfterSellCount ==
        IF signal = "SELL" THEN 0
        ELSE IF signal = "BUY"
        THEN (IF tracking.lastSignal = "SELL" THEN tracking.buyAfterSellCount + 1 ELSE 0)
        ELSE tracking.buyAfterSellCount
      snapshotLtp == IF snapshot = <<>> THEN Null ELSE snapshot[1].ltp
      canUseSnapshot == snapshot # <<>> /\ snapshot[1].state = "NOPOSITION_SIGNAL"
                        /\ snapshotLtp # Null
      buySellSellEligible == /\ signal = "SELL"
                             /\ sellAfterBuyCount >= 2
                             /\ canUseSnapshot
                             /\ snapshot[1].lastBUYThreshold # Null
                             /\ snapshotLtp < snapshot[1].lastBUYThreshold
      sellBuyBuyEligible == /\ signal = "BUY"
                            /\ buyAfterSellCount >= 2
                            /\ canUseSnapshot
                            /\ snapshot[1].lastSELLThreshold # Null
                            /\ snapshotLtp < snapshot[1].lastSELLThreshold
      buySellSell == tracking.buySellSell \/ buySellSellEligible
      sellBuyBuy == tracking.sellBuyBuy \/ sellBuyBuyEligible
  IN  [ state |-> [ lastSignal |-> IF signal # "NONE" THEN signal ELSE tracking.lastSignal,
                    sellAfterBuyCount |-> sellAfterBuyCount,
                    buyAfterSellCount |-> buyAfterSellCount,
                    alternateSignal |-> alternateSignal,
                    buySellSell |-> buySellSell,
                    sellBuyBuy |-> sellBuyBuy ],
        alternateSignal |-> alternateSignal,
        buySellSell |-> buySellSell,
        sellBuyBuy |-> sellBuyBuy ]

\* [...list, x] unless list.includes(x)
Included(list, x) ==
  IF \E i \in 1..Len(list) : list[i] = x THEN list ELSE Append(list, x)

\* allowedSymbols is <<>> (null: no filter) or <<set>>; t is the instant of new Date()
reduceSignalState(state, payload, snapshot, allowedSymbols, t) ==
  LET symbol == orEmpty(payload.symbol)
      intent == normalizeString(payload.intent)
      signal == WebhookState_getSignalType(intent, normalizeString(payload.side))
      tracking == GetOr(state.fsmBySymbol, symbol, defaultTracking)
      tracked == nextTracking(tracking, signal,
                              IF symbol \in DOMAIN snapshot THEN <<snapshot[symbol]>> ELSE <<>>)
      nextRow == [ timeIst |-> formatIstTime(t),
                   intent |-> intent,
                   stoppx |-> payload.stoppx,
                   alternateSignal |-> tracked.alternateSignal,
                   buySellSell |-> tracked.buySellSell,
                   sellBuyBuy |-> tracked.sellBuyBuy ]
      existingRows == GetOr(state.bySymbol, symbol, <<>>)
  IN  IF symbol = "" THEN state
      ELSE IF allowedSymbols # <<>> /\ symbol \notin allowedSymbols[1] THEN state
      ELSE [ bySymbol |-> Put(state.bySymbol, symbol,
                              Slice(<<nextRow>> \o existingRows, MaxSignalTableRows)),
             fsmBySymbol |-> Put(state.fsmBySymbol, symbol, tracked.state),
             paperTradesBySymbol |-> state.paperTradesBySymbol,
             liveTradesBySymbol |-> state.liveTradesBySymbol,
             symbols |-> Included(state.symbols, symbol) ]

\* the webhook$ subscription of the constructor: every mode's subject is reduced
reduceSignalStates(byMode, payload, snapshot, t) ==
  [ mode \in DOMAIN byMode |->
      reduceSignalState(byMode[mode], payload, snapshot, allowedSymbolsByMode[mode], t) ]

clearSignals(byMode, mode) ==
  IF mode \in DOMAIN byMode THEN [byMode EXCEPT ![mode] = initialSignalState] ELSE byMode

---------------------------------------------------------------------------
(* Specification of the tick FSM.  Events are well-formed (numeric token and *)
(* price, resolvable symbol) and one instrument is exercised per behaviour:  *)
(* the exchange instrument by ticks and signals, or the feed symbol by feed  *)
(* prices and signals.                                                       *)

TickInit ==
  /\ ticks = <<>>
  /\ latestLtpByToken = EmptyMap
  /\ latestBinanceBySymbol = EmptyMap
  /\ fsmByToken = EmptyMap
  /\ fsmBySymbol = EmptyMap
  /\ lastLog = <<>>
  /\ lastEvent = [type |-> "none", receivedAt |-> 0, ltp |-> Null, signal |-> "NONE"]
  /\ inOrder = TRUE

LedgerInit ==
  /\ tradeState = initialTradeState
  /\ signalStateByMode = [mode \in FilterModes |-> initialSignalState]

LiveInit ==
  /\ stateBySymbol = EmptyMap
  /\ liveTradesSubject = EmptyMap
  /\ liveModeSubject = EmptyMap
  /\ blockedUntilSubject = EmptyMap
  /\ sent = <<>>
  /\ liveSignalLog = EmptyMap
  /\ lastOrderBySymbol = EmptyMap
  /\ latestTicks = <<>>

ClockInit == now = 0

Init == TickInit /\ LedgerInit /\ LiveInit /\ ClockInit

\* no event has touched the exchange (token) instrument / the feed (symbol) instrument
TokenIdle == DOMAIN fsmByToken = {} /\ DOMAIN latestLtpByToken = {}
                /\ TokenSymbol \notin DOMAIN latestBinanceBySymbol
SymbolIdle == DOMAIN fsmBySymbol = {} /\ BinanceSymbol \notin DOMAIN latestBinanceBySymbol

\* the instrument a symbol names is the only one in use
Solo(symbol) ==
  IF isBinanceSymbol(symbol) THEN TokenIdle
  ELSE IF symbol = TokenSymbol THEN SymbolIdle
  ELSE TRUE

\* Date.now() does not run backwards between two events
LaterTimes == {t \in Times : t >= lastEvent.receivedAt}

TickEvent(ts) ==
  \E ltp \in Prices, t \in ts :
    /\ SymbolIdle
    /\ ReduceTick([instrument_token |-> NiftyToken, last_price |-> ltp], t)
    /\ UNCHANGED <<ledgerVars, liveVars, now>>

SignalEvent(ts) ==
  \E symbol \in {BinanceSymbol, TokenSymbol}, p \in Payloads,
     stoppx \in StopPrices, t \in ts :
    /\ Solo(symbol)
    /\ ReduceSignal([symbol |-> symbol, intent |-> p[1], side |-> p[2], stoppx |-> stoppx], t)
    /\ UNCHANGED <<ledgerVars, liveVars, now>>

BinanceEvent(ts) ==
  \E symbol \in {BinanceSymbol}, price \in Prices, t \in ts :
    /\ Solo(symbol)
    /\ ReduceBinance([symbol |-> symbol, price |-> price], t)
    /\ UNCHANGED <<ledgerVars, liveVars, now>>

\* events stamped by a clock that never steps back
Next == TickEvent(LaterTimes) \/ SignalEvent(LaterTimes) \/ BinanceEvent(LaterTimes)

Spec == Init /\ [][Next]_vars

\* reduceTickState applied to events with arbitrary timestamps
NextAnyOrder == TickEvent(Times) \/ SignalEvent(Times) \/ BinanceEvent(Times)

SpecAnyOrder == Init /\ [][NextAnyOrder]_vars

---------------------------------------------------------------------------
(* The paper ledger and the live mirror as state machines.                   *)
(* The subscription that fed reduceTradeState from fsmBySymbol$ is disabled  *)
(* in the constructor of WebhookStateService, so the ledger is driven here   *)
(* by snapshots of its declared input type, and the live mirror by calls of  *)
(* its public methods; now is the value of Date.now().                       *)

FsmStates == {"NOSIGNAL", "NOPOSITION_SIGNAL", "BUYPOSITION", "NOPOSITION_BLOCKED"}
\* FsmSymbolSnapshot.ltp: a price of 0 (falsy) or a price
SnapshotPrices == {0, 1, MaxPrice}
LedgerSymbols == {TokenSymbol}

LiveSymbols == {BinanceSymbol}
\* unrealized PnL on and next to the two thresholds
PnlValues == {CLOSE_THRESHOLD - 1, CLOSE_THRESHOLD, OPEN_THRESHOLD - 1,
              OPEN_THRESHOLD, OPEN_THRESHOLD + 1}
\* the paper ledger's cumulative PnL: nothing realized, or enough to open
CumulativeValues == {0, OPEN_THRESHOLD + 1}
\* the arguments of onPaperTradeOpen, the optional currentLtp, the exit price
EntryPrices == {1}
Quantities == {2}
Lots == {1}
OptionalPrices == {Null, 2}
ExitPrices == {2}

\* Date.now(): minute 0, then an instant past the first second of each later minute
ClockTimes == {0} \cup {m * MsPerMinute + MsPerSecond : m \in 1..MaxMinute}

\* the fields of PaperToLiveService before a call; sent collects the order
\* notifications of that call
LiveWorld ==
  [ stateBySymbol |-> stateBySymbol,
    liveTrades |-> liveTradesSubject,
    liveMode |-> liveModeSubject,
    blockedUntil |-> blockedUntilSubject,
    sent |-> <<>> ]

LiveFields(w) ==
  /\ stateBySymbol' = w.stateBySymbol
  /\ liveTradesSubject' = w.liveTrades
  /\ liveModeSubject' = w.liveMode
  /\ blockedUntilSubject' = w.blockedUntil
  /\ sent' = w.sent
  /\ liveSignalLog' = EmptyMap

SetLive(w) == LiveFields(w) /\ UNCHANGED <<lastOrderBySymbol, latestTicks>>

\* the explored behaviours keep every row list within the bounds
LiveRowsFit(w) ==
  \A s \in DOMAIN w.stateBySymbol : Len(w.stateBySymbol[s].trades) <= MaxLiveRows
PaperRowsFit(st) ==
  \A s \in DOMAIN st.tradesBySymbol : Len(st.tradesBySymbol[s]) <= MaxPaperRows

AdvanceClock ==
  \E t \in ClockTimes :
    /\ t > now
    /\ now' = t
    /\ UNCHANGED <<tickVars, ledgerVars, liveVars>>

\* tradeState$.next(reduceTradeState(tradeState$.value, snapshot, lotLookup))
ReduceTradeState(symbol, current) ==
  LET r == reduceTradeState(tradeState, <<<<symbol, current>>>>, lotLookup, LiveWorld, now)
  IN  /\ PaperRowsFit(r.trade)
      /\ LiveRowsFit(r.live)
      /\ tradeState' = r.trade
      /\ SetLive(r.live)
      /\ UNCHANGED <<tickVars, signalStateByMode, now>>

SnapshotEvent ==
  \E symbol \in LedgerSymbols, state \in FsmStates, ltp \in SnapshotPrices :
    /\ DOMAIN tradeState.lastSnapshotBySymbol \subseteq {symbol}
    /\ ReduceTradeState(symbol, [state |-> state, ltp |-> ltp])

NextLedger == SnapshotEvent \/ AdvanceClock

SpecLedger == Init /\ [][NextLedger]_vars

LiveCall(w) ==
  /\ LiveRowsFit(w)
  /\ SetLive(w)
  /\ UNCHANGED <<tickVars, ledgerVars, now>>

UpdateCumulativePnl(symbol, paperCumulativePnl) ==
  LiveCall(updateCumulativePnl(LiveWorld, symbol, paperCumulativePnl, now))

UpdateUnrealizedPnl(symbol, unrealizedPnl, currentLtp) ==
  LiveCall(updateUnrealizedPnl(LiveWorld, symbol, unrealizedPnl, currentLtp, now))

OnPaperTradeOpen(symbol, entryPrice, quantity, lot) ==
  LiveCall(onPaperTradeOpen(LiveWorld, symbol, entryPrice, quantity, lot, now))

OnPaperTradeClose(symbol, exitPrice) ==
  LiveCall(onPaperTradeClose(LiveWorld, symbol, exitPrice, now))

ClearTrades(symbol) == LiveCall(clearTrades(LiveWorld, symbol, now))

ClearAll == LiveCall(clearAll(LiveWorld))

\* the fetch of a notification of the last call settles
SettleLiveSignal ==
  \E i \in (1..Len(sent)) \ DOMAIN liveSignalLog, outcome \in FetchOutcomes :
    LET r == settleLiveWebhookMessage(LiveWorld, sent[i], outcome)
    IN  /\ stateBySymbol' = r.world.stateBySymbol
        /\ liveTradesSubject' = r.world.liveTrades
        /\ liveModeSubject' = r.world.liveMode
        /\ blockedUntilSubject' = r.world.blockedUntil
        /\ liveSignalLog' = Put(liveSignalLog, i, [line |-> r.line, rejected |-> r.rejected])
        /\ UNCHANGED <<tickVars, ledgerVars, sent, lastOrderBySymbol, latestTicks, now>>

NextLive ==
  \/ \E symbol \in LiveSymbols, c \in CumulativeValues : UpdateCumulativePnl(symbol, c)
  \/ \E symbol \in LiveSymbols, u \in PnlValues, ltp \in OptionalPrices :
        UpdateUnrealizedPnl(symbol, u, ltp)
  \/ \E symbol \in LiveSymbols, entryPrice \in EntryPrices, quantity \in Quantities,
        lot \in Lots : OnPaperTradeOpen(symbol, entryPrice, quantity, lot)
  \/ \E symbol \in LiveSymbols, exitPrice \in ExitPrices : OnPaperTradeClose(symbol, exitPrice)
  \/ \E symbol \in LiveSymbols : ClearTrades(symbol)
  \/ ClearAll
  \/ AdvanceClock

SpecLive == Init /\ [][NextLive]_vars


\* the live position of the symbol is closed, a paper trade is pending and
\* total PnL is above OPEN_THRESHOLD
Qualified(state) ==
  /\ state.state = "NO_POSITION"
  /\ state.pendingPaperTrade # <<>>
  /\ state.cumulativePnl + state.unrealizedPnl > OPEN_THRESHOLD

\* the cooldown of the state is over at the current time
CooldownOver(state) ==
  state.blockedAtMs # Null /\ PaperToLive_isFirstSecondNextMinute(state.blockedAtMs, now)

\* the ledger marks the open paper trade of a symbol that waits for its live
\* trade after a cooldown
MarkAwaited ==
  \E symbol \in DOMAIN stateBySymbol :
    /\ CooldownOver(stateBySymbol[symbol])
    /\ Qualified(stateBySymbol[symbol])
    /\ \E u \in PnlValues, ltp \in OptionalPrices : UpdateUnrealizedPnl(symbol, u, ltp)

\* the live mirror while the paper ledger keeps marking its open trade:
\* reduceTradeState calls updateUnrealizedPnl on every snapshot of an instrument
\* in position, so the call is not postponed forever for a symbol that waits
SpecLiveMarked == SpecLive /\ WF_vars(MarkAwaited)


\* the live mirror with the receiver of its order notifications: for each
\* symbol the kind of the last notification sent is kept
RECURSIVE ordersAfter(_, _)
ordersAfter(orders, requests) ==
  IF requests = <<>> THEN orders
  ELSE ordersAfter(Put(orders, Head(requests).symbol, Head(requests).kind), Tail(requests))

OrderedCall(w) ==
  /\ LiveRowsFit(w)
  /\ LiveFields(w)
  /\ lastOrderBySymbol' = ordersAfter(lastOrderBySymbol, w.sent)
  /\ UNCHANGED <<tickVars, ledgerVars, latestTicks, now>>

NextOrders ==
  \/ \E symbol \in LiveSymbols, c \in CumulativeValues :
        OrderedCall(updateCumulativePnl(LiveWorld, symbol, c, now))
  \/ \E symbol \in LiveSymbols, u \in PnlValues, ltp \in OptionalPrices :
        OrderedCall(updateUnrealizedPnl(LiveWorld, symbol, u, ltp, now))
  \/ \E symbol \in LiveSymbols, entryPrice \in EntryPrices, quantity \in Quantities,
        lot \in Lots :
        OrderedCall(onPaperTradeOpen(LiveWorld, symbol, entryPrice, quantity, lot, now))
  \/ \E symbol \in LiveSymbols, exitPrice \in ExitPrices :
        OrderedCall(onPaperTradeClose(LiveWorld, symbol, exitPrice, now))
  \/ \E symbol \in LiveSymbols : OrderedCall(clearTrades(LiveWorld, symbol, now))
  \/ OrderedCall(clearAll(LiveWorld))
  \/ AdvanceClock

SpecOrders == Init /\ [][NextOrders]_vars

\* the subscriber of initStateStream hands the reduced state to stateSubject and only then
\* builds the snapshot and hands it to snapshotSubject; combineLatest over tickState$ and
\* fsmBySymbol$ passes on one combination per publication, holding the latest value of the
\* other stream
Publish ==
  LET nextState == [ticks |-> ticks', latestLtpByToken |-> latestLtpByToken',
                    latestBinanceBySymbol |-> latestBinanceBySymbol',
                    fsmByToken |-> fsmByToken', fsmBySymbol |-> fsmBySymbol']
      published == buildFsmSnapshot(fsmByToken, fsmBySymbol, latestLtpByToken,
                                    latestBinanceBySymbol)
      snapshot == buildFsmSnapshot(fsmByToken', fsmBySymbol', latestLtpByToken',
                                   latestBinanceBySymbol')
  IN  latestTicks' = << [state |-> nextState, snapshot |-> published],
                        [state |-> nextState, snapshot |-> snapshot] >>

PublishedTick ==
  \E ltp \in Prices, t \in LaterTimes :
    /\ SymbolIdle
    /\ ReduceTick([instrument_token |-> NiftyToken, last_price |-> ltp], t)
    /\ Publish
    /\ UNCHANGED <<ledgerVars, stateBySymbol, liveTradesSubject, liveModeSubject,
                   blockedUntilSubject, sent, liveSignalLog, lastOrderBySymbol, now>>

PublishedSignal ==
  \E symbol \in {BinanceSymbol, TokenSymbol}, p \in Payloads, stoppx \in StopPrices,
     t \in LaterTimes :
    /\ Solo(symbol)
    /\ ReduceSignal([symbol |-> symbol, intent |-> p[1], side |-> p[2], stoppx |-> stoppx], t)
    /\ Publish
    /\ UNCHANGED <<ledgerVars, stateBySymbol, liveTradesSubject, liveModeSubject,
                   blockedUntilSubject, sent, liveSignalLog, lastOrderBySymbol, now>>

PublishedBinance ==
  \E symbol \in {BinanceSymbol}, price \in Prices, t \in LaterTimes :
    /\ Solo(symbol)
    /\ ReduceBinance([symbol |-> symbol, price |-> price], t)
    /\ Publish
    /\ UNCHANGED <<ledgerVars, stateBySymbol, liveTradesSubject, liveModeSubject,
                   blockedUntilSubject, sent, liveSignalLog, lastOrderBySymbol, now>>

\* the tick stream with TickComponent subscribed to latestTicks$
NextPublished == PublishedTick \/ PublishedSignal \/ PublishedBinance

SpecPublished == Init /\ [][NextPublished]_vars

\* the live mirror with the order requests settling between its calls
NextDelivery == NextLive \/ SettleLiveSignal

SpecDelivery == Init /\ [][NextDelivery]_vars

---------------------------------------------------------------------------
(* The tick FSM fed by untrusted input: next to the well-formed events, ticks *)
(* without a numeric instrument_token or last_price, feed prices without a   *)
(* numeric price or without a symbol, and signals for a symbol that is       *)
(* neither in instruments.json nor feed-tracked.                             *)

MalformedTicks ==
  { [instrument_token |-> Null, last_price |-> 1],
    [instrument_token |-> NiftyToken, last_price |-> Null] }

MalformedPrices ==
  { [symbol |-> NoString, price |-> 1],
    [symbol |-> BinanceSymbol, price |-> Null] }

IsMalformedTick(tick) == getInstrumentToken(tick) = Null \/ getTickLtp(tick) = Null

\* the recent-ticks list holds a malformed tick
MalformedKept == \E i \in 1..Len(ticks) : IsMalformedTick(ticks[i])

\* an untrusted event arrives in the instant of the event before it; none of
\* the branches it takes reads the timestamp
SameInstant == {lastEvent.receivedAt}

MalformedTickEvent ==
  \E tick \in MalformedTicks, t \in SameInstant :
    /\ ~MalformedKept
    /\ SymbolIdle
    /\ ReduceTick(tick, t)
    /\ UNCHANGED <<ledgerVars, liveVars, now>>

MalformedPriceEvent ==
  \E payload \in MalformedPrices, t \in SameInstant :
    /\ payload.symbol # NoString => Solo(payload.symbol)
    /\ ReduceBinance(payload, t)
    /\ UNCHANGED <<ledgerVars, liveVars, now>>

\* a symbol missing from instruments.json, and a webhook without a symbol
UnresolvedSymbols == {UnknownSymbol, NoString}

\* one webhook of each direction (BUY, SELL, none), without a stop price
UnresolvedPayloads == {<<"ENTRY", NoString>>, <<"sell", NoString>>, <<"HOLD", NoString>>}

UnresolvedSignalEvent ==
  \E symbol \in UnresolvedSymbols, p \in UnresolvedPayloads, t \in SameInstant :
    /\ ReduceSignal([symbol |-> symbol, intent |-> p[1], side |-> p[2],
                     stoppx |-> Null], t)
    /\ UNCHANGED <<ledgerVars, liveVars, now>>

NextUntrusted ==
  \/ Next
  \/ MalformedTickEvent
  \/ MalformedPriceEvent
  \/ UnresolvedSignalEvent

SpecUntrusted == Init /\ [][NextUntrusted]_vars

---------------------------------------------------------------------------
(* The tick FSM with the exchange instrument and the feed symbol in use in   *)
(* the same behaviour, and feed prices arriving for either of them.          *)

\* the open of the session and the first second of each later minute
PairTimes == {m * MsPerMinute : m \in 0..MaxMinute}
PairLaterTimes == {t \in PairTimes : t >= lastEvent.receivedAt}
PairPrices == {1, MaxPrice}
\* webhooks for the exchange instrument carry either direction, those for the
\* feed symbol are BUY webhooks
PairPayloads(symbol) ==
  IF symbol = TokenSymbol THEN {<<"ENTRY", NoString>>, <<"sell", NoString>>}
  ELSE {<<"ENTRY", NoString>>}

PairTickEvent ==
  \E ltp \in PairPrices, t \in PairLaterTimes :
    /\ ReduceTick([instrument_token |-> NiftyToken, last_price |-> ltp], t)
    /\ UNCHANGED <<ledgerVars, liveVars, now>>

PairSignalEvent ==
  \E symbol \in {BinanceSymbol, TokenSymbol}, t \in PairLaterTimes :
   \E p \in PairPayloads(symbol) :
    /\ ReduceSignal([symbol |-> symbol, intent |-> p[1], side |-> p[2],
                     stoppx |-> MaxPrice - 1], t)
    /\ UNCHANGED <<ledgerVars, liveVars, now>>

PairBinanceEvent ==
  \E symbol \in {BinanceSymbol, TokenSymbol}, price \in PairPrices, t \in PairLaterTimes :
    /\ ReduceBinance([symbol |-> symbol, price |-> price], t)
    /\ UNCHANGED <<ledgerVars, liveVars, now>>

NextPair == PairTickEvent \/ PairSignalEvent \/ PairBinanceEvent

SpecPair == Init /\ [][NextPair]_vars

---------------------------------------------------------------------------
(* The thresholds of both instruments: webhooks of either direction, with and *)
(* without stop price, between ticks and feed prices that all carry the same  *)
(* timestamp (no cooldown ever elapses).                                      *)

DirectedPayloads == {<<"ENTRY", NoString>>, <<"sell", NoString>>}

ThresholdTickEvent ==
  \E ltp \in PairPrices, t \in SameInstant :
    /\ ReduceTick([instrument_token |-> NiftyToken, last_price |-> ltp], t)
    /\ UNCHANGED <<ledgerVars, liveVars, now>>

ThresholdSignalEvent ==
  \E symbol \in {BinanceSymbol, TokenSymbol}, p \in DirectedPayloads,
     stoppx \in StopPrices, t \in SameInstant :
    /\ ReduceSignal([symbol |-> symbol, intent |-> p[1], side |-> p[2], stoppx |-> stoppx], t)
    /\ UNCHANGED <<ledgerVars, liveVars, now>>

ThresholdBinanceEvent ==
  \E symbol \in {BinanceSymbol, TokenSymbol}, price \in PairPrices, t \in SameInstant :
    /\ ReduceBinance([symbol |-> symbol, price |-> price], t)
    /\ UNCHANGED <<ledgerVars, liveVars, now>>

NextThresholds == ThresholdTickEvent \/ ThresholdSignalEvent \/ ThresholdBinanceEvent

SpecThresholds == Init /\ [][NextThresholds]_vars

---------------------------------------------------------------------------
(* The tick FSM and the signal table fed by the same webhooks.  Both         *)
(* services subscribe to webhook$; TickFsmStateService is constructed first  *)
(* (it is injected by WebhookStateService), so its handler runs first and    *)
(* withLatestFrom(fsmBySymbol$) hands reduceSignalState the snapshot that     *)
(* already holds the webhook's own transition.                               *)

\* (intent, side) pairs: intent ENTRY, side only, intent sell, padded intent,
\* and an unknown intent next to a side
TrackedPayloads == {
  <<"ENTRY", NoString>>, <<NoString, "buy">>, <<"sell", NoString>>,
  <<" sell ", NoString>>, <<"HOLD", "sell">> }

TrackedSymbols == {BinanceSymbol, TokenSymbol, NoString}

SignalRowsFit(byMode) ==
  \A mode \in DOMAIN byMode : \A s \in DOMAIN byMode[mode].bySymbol :
    Len(byMode[mode].bySymbol[s]) <= MaxSignalRows

Webhook(payload, t) ==
  /\ ReduceSignal(payload, t)
  /\ signalStateByMode' =
       reduceSignalStates(signalStateByMode, payload,
                          buildFsmSnapshot(fsmByToken', fsmBySymbol',
                                           latestLtpByToken', latestBinanceBySymbol'), t)
  /\ SignalRowsFit(signalStateByMode')
  /\ UNCHANGED <<tradeState, liveVars, now>>

WebhookEvent ==
  \E symbol \in TrackedSymbols, p \in TrackedPayloads, t \in SameInstant :
    /\ Solo(symbol)
    /\ Webhook([symbol |-> symbol, intent |-> p[1], side |-> p[2], stoppx |-> MaxPrice - 1], t)

TrackedTickEvent ==
  \E ltp \in PairPrices, t \in SameInstant :
    /\ SymbolIdle
    /\ ReduceTick([instrument_token |-> NiftyToken, last_price |-> ltp], t)
    /\ UNCHANGED <<ledgerVars, liveVars, now>>

TrackedBinanceEvent ==
  \E price \in PairPrices, t \in SameInstant :
    /\ TokenIdle
    /\ ReduceBinance([symbol |-> BinanceSymbol, price |-> price], t)
    /\ UNCHANGED <<ledgerVars, liveVars, now>>

ClearSignals ==
  \E mode \in FilterModes :
    /\ signalStateByMode' = clearSignals(signalStateByMode, mode)
    /\ UNCHANGED <<tickVars, tradeState, liveVars, now>>

NextSignals ==
  \/ WebhookEvent
  \/ ClearSignals
  \/ TrackedTickEvent
  \/ TrackedBinanceEvent

SpecSignals == Init /\ [][NextSignals]_vars

---------------------------------------------------------------------------
(* The tick FSM and the paper ledger side by side: a behaviour feeds events  *)
(* to reduceTickState or snapshots to reduceTradeState.  The subscription    *)
(* that piped the one into the other is disabled, so the two never run in    *)
(* the same behaviour.                                                       *)

NextEither ==
  \/ LedgerInit /\ LiveInit /\ ClockInit /\ Next
  \/ TickInit /\ NextLedger

SpecEither == Init /\ [][NextEither]_vars



---------------------------------------------------------------------------
(* Claims about the tick FSM *)

\* every InstrumentFsm record of the tick state, token-keyed or symbol-keyed
AllFsm == {fsmByToken[k] : k \in DOMAIN fsmByToken} \cup {fsmBySymbol[k] : k \in DOMAIN fsmBySymbol}

Evaluated == {"BUYPOSITION", "NOPOSITION_BLOCKED"}

\* the step applied a price event (tick or feed price) / a classified signal
PriceStep == lastEvent'.type \in {"tick", "binance"} /\ lastEvent'.ltp # Null
ClassifiedSignalStep == lastEvent'.type = "signal" /\ lastEvent'.signal # "NONE"

\* t lies in second 0 of a minute strictly after the minute of anchor
BoundaryAfter(anchor, t) == Minute(t) > Minute(anchor) /\ getSeconds(t) = 0

\* C1 (as stated): in every record, threshold is non-null whenever state is not
\* NOSIGNAL.
C1_ThresholdWheneverSignalled ==
  \A r \in AllFsm : r.state # "NOSIGNAL" => r.threshold # Null

\* C1 (amended): in every record, threshold is non-null whenever state is
\* BUYPOSITION or NOPOSITION_BLOCKED; NOPOSITION_SIGNAL may carry a null threshold.
C1_ThresholdWhenEvaluated ==
  \A r \in AllFsm : r.state \in Evaluated => r.threshold # Null

C1_Witness ==
  /\ \E k \in DOMAIN fsmByToken : fsmByToken[k].state = "BUYPOSITION"
  /\ lastEvent.type = "tick"

\* C2: a BLOCKED record changes in a step only if the step is a classified signal
\* or a price event whose timestamp is in second 0 of a minute strictly later than
\* the minute of lastBlockedAtMs; every other price event leaves it unchanged.
C2_BlockedUnchanged(m) ==
  \A k \in DOMAIN m :
    (m[k].state = "NOPOSITION_BLOCKED" /\ m'[k] # m[k]) =>
       \/ ClassifiedSignalStep
       \/ PriceStep /\ BoundaryAfter(m[k].lastBlockedAtMs, lastEvent'.receivedAt)

C2_CooldownGate ==
  [][C2_BlockedUnchanged(fsmByToken) /\ C2_BlockedUnchanged(fsmBySymbol)]_vars

\* a price event in a later minute, at a second other than 0, left the record blocked
C2_Witness ==
  /\ lastEvent.type = "tick" /\ lastEvent.ltp # Null
  /\ \E k \in DOMAIN fsmByToken :
       /\ fsmByToken[k].state = "NOPOSITION_BLOCKED"
       /\ Minute(lastEvent.receivedAt) > Minute(fsmByToken[k].lastBlockedAtMs)
       /\ getSeconds(lastEvent.receivedAt) # 0
       /\ lastEvent.ltp > fsmByToken[k].threshold

\* C3: a price event that reactivates a BLOCKED record yields the intermediate
\* record (NOPOSITION_SIGNAL, lastSignalAtMs = event time, lastCheckedAtMs =
\* lastBlockedAtMs = null, threshold unchanged) and then BUYPOSITION if price >
\* threshold, else NOPOSITION_BLOCKED; the log holds both transitions in order.
C3_Reactivation(m, type) ==
  \A k \in DOMAIN m :
    LET cur == m[k]
        t == lastEvent'.receivedAt
        ltp == lastEvent'.ltp
        result == applyTickTransition(cur, ltp, t)
        landed == IF ltp > cur.threshold THEN "BUYPOSITION" ELSE "NOPOSITION_BLOCKED"
    IN  ( /\ cur.state = "NOPOSITION_BLOCKED"
          /\ lastEvent'.type = type /\ ltp # Null
          /\ BoundaryAfter(cur.lastBlockedAtMs, t) )
        =>
        /\ result.intermediate = << [cur EXCEPT !.state = "NOPOSITION_SIGNAL",
                                                !.lastSignalAtMs = t,
                                                !.lastCheckedAtMs = Null,
                                                !.lastBlockedAtMs = Null] >>
        /\ m'[k] = result.next
        /\ m'[k].state = landed
        /\ m'[k].threshold = cur.threshold
        /\ Len(lastLog') = 2
        /\ lastLog'[1].prevState = "NOPOSITION_BLOCKED"
        /\ lastLog'[1].nextState = "NOPOSITION_SIGNAL"
        /\ lastLog'[2].prevState = "NOPOSITION_SIGNAL"
        /\ lastLog'[2].nextState = landed
        /\ lastLog'[1].at = t /\ lastLog'[2].at = t

C3_TwoTransitions ==
  [][C3_Reactivation(fsmByToken, "tick") /\ C3_Reactivation(fsmBySymbol, "binance")]_vars

\* a feed price reactivated the feed symbol and it entered the position
C3_Witness ==
  /\ Len(lastLog) = 2
  /\ lastLog[1].source = "binance"
  /\ lastLog[1].prevState = "NOPOSITION_BLOCKED"
  /\ lastLog[2].nextState = "BUYPOSITION"

\* the record a signal for `symbol` is applied to, after the step
SignalledRecord(symbol) ==
  IF isBinanceSymbol(symbol) THEN fsmBySymbol'[symbol]
  ELSE fsmByToken'[getTokenForSymbol(symbol, symbolLookup)]

\* C4: a classified signal applied in any state leaves the record in
\* NOPOSITION_SIGNAL with lastSignalAtMs = event time and lastCheckedAtMs =
\* lastBlockedAtMs = null.
C4_SignalStep ==
  \A symbol \in {BinanceSymbol, TokenSymbol}, p \in Payloads, stoppx \in StopPrices, t \in Times :
    LET payload == [symbol |-> symbol, intent |-> p[1], side |-> p[2], stoppx |-> stoppx]
    IN  ( /\ lastEvent'.type = "signal"
          /\ lastEvent'.receivedAt = t
          /\ getSignalType(payload) # "NONE"
          /\ ReduceSignal(payload, t) ) =>
          /\ SignalledRecord(symbol).state = "NOPOSITION_SIGNAL"
          /\ SignalledRecord(symbol).lastSignalAtMs = t
          /\ SignalledRecord(symbol).lastCheckedAtMs = Null
          /\ SignalledRecord(symbol).lastBlockedAtMs = Null

C4_SignalAlwaysRearms == [][C4_SignalStep]_vars

\* a signal re-armed a record blocked in the same minute (cooldown not elapsed)
C4_Witness ==
  /\ lastEvent.type = "signal" /\ lastEvent.signal = "SELL"
  /\ Len(lastLog) = 1
  /\ lastLog[1].prevState = "NOPOSITION_BLOCKED"
  /\ lastLog[1].nextState = "NOPOSITION_SIGNAL"
  /\ lastEvent.receivedAt = 0

---------------------------------------------------------------------------
(* Claims about the paper ledger *)

\* the ledger's record of the state the instrument was last seen in
PrevSnapshotState(symbol) ==
  IF Has(tradeState.lastSnapshotBySymbol, symbol)
    THEN tradeState.lastSnapshotBySymbol[symbol].state
    ELSE "NOSIGNAL"

\* the step recorded this snapshot as the last one seen (every call does, line 227)
SnapshotRecorded(symbol, current) ==
  /\ Has(tradeState'.lastSnapshotBySymbol, symbol)
  /\ tradeState'.lastSnapshotBySymbol[symbol] = current

PaperRows(st, symbol) == GetOr(st.tradesBySymbol, symbol, <<>>)
ExitRows(st, symbol) ==
  {i \in 1..Len(PaperRows(st, symbol)) : PaperRows(st, symbol)[i].id.suffix = "-exit"}
\* the rows of the trade with this id (its entry row)
RowsOf(st, symbol, id) ==
  {i \in 1..Len(PaperRows(st, symbol)) : PaperRows(st, symbol)[i].id = id}

\* realized PnL of a closed trade, from its closed-trade record
RealizedOf(row) ==
  (row.currentPrice - row.entryPrice) * row.quantity * GetOr(lotLookup, row.symbol, DefaultLot)

RECURSIVE SumRealized(_)
SumRealized(rows) ==
  IF rows = <<>> THEN 0
  ELSE (IF Head(rows).id.suffix = "-exit" THEN RealizedOf(Head(rows)) ELSE 0)
         + SumRealized(Tail(rows))

C6_PnlStep(symbol, current) ==
  LET open == tradeState.openBySymbol[symbol]
      ltp == current.ltp
      expected == (ltp - open.entryPrice) * open.quantity * open.lot
      rows == PaperRows(tradeState', symbol)
      own == RowsOf(tradeState', symbol, open.id)
  IN  ( /\ Has(tradeState.openBySymbol, symbol)
        /\ PrevSnapshotState(symbol) = "BUYPOSITION"
        /\ ~isFalsy(ltp)
        /\ SnapshotRecorded(symbol, current)
        /\ ReduceTradeState(symbol, current) )
      => IF current.state = "BUYPOSITION"
           THEN /\ own # {}
                /\ \A i \in own : rows[i].unrealizedPnl = expected /\ rows[i].currentPrice = ltp
                /\ tradeState'.openBySymbol = tradeState.openBySymbol
                /\ tradeState'.cumulativeBySymbol = tradeState.cumulativeBySymbol
           ELSE /\ ~Has(tradeState'.openBySymbol, symbol)
                /\ tradeState'.cumulativeBySymbol[symbol]
                     = GetOr(tradeState.cumulativeBySymbol, symbol, 0) + expected
                /\ own # {}
                /\ \A i \in own : rows[i].unrealizedPnl = 0 /\ rows[i].currentPrice = ltp
                /\ Head(rows).id = [open.id EXCEPT !.suffix = "-exit"]
                /\ Head(rows).currentPrice = ltp
                /\ Head(rows).entryPrice = open.entryPrice
                /\ Head(rows).unrealizedPnl = expected

C8_EntryStep(symbol, current) ==
  ( /\ Has(tradeState.openBySymbol, symbol)
    /\ PrevSnapshotState(symbol) # "BUYPOSITION"
    /\ current.state = "BUYPOSITION"
    /\ ~isFalsy(current.ltp)
    /\ SnapshotRecorded(symbol, current)
    /\ ReduceTradeState(symbol, current) )
  => /\ Has(tradeState'.openBySymbol, symbol)
     /\ tradeState'.openBySymbol[symbol] = tradeState.openBySymbol[symbol]

\* C8: an entry transition (last seen state not BUYPOSITION, snapshot state
\* BUYPOSITION) processed for an instrument that has an open paper trade leaves
\* that open trade as it is.
C8_OpenTradeNeverReplaced ==
  [][\A symbol \in LedgerSymbols, state \in FsmStates, ltp \in SnapshotPrices :
       C8_EntryStep(symbol, [state |-> state, ltp |-> ltp])]_vars

---------------------------------------------------------------------------
(* Claims about the live mirror *)

LiveState(states, symbol) == GetOr(states, symbol, defaultLiveState)
LiveTotal(state) == state.cumulativePnl + state.unrealizedPnl
HasSent(kind, symbol) == \E i \in 1..Len(sent) : sent[i].kind = kind /\ sent[i].symbol = symbol

\* a live trade is open after the step that was not open before it
LiveOpened(symbol) ==
  /\ LiveState(stateBySymbol', symbol).openTrade # <<>>
  /\ LiveState(stateBySymbol', symbol).openTrade # LiveState(stateBySymbol, symbol).openTrade

C9_OpenStep(symbol) ==
  LiveOpened(symbol)
  => /\ LiveState(stateBySymbol, symbol).state = "NO_POSITION"
     /\ LiveState(stateBySymbol, symbol).openTrade = <<>>
     /\ LiveState(stateBySymbol', symbol).state = "POSITION"
     /\ LiveState(stateBySymbol', symbol).blockedAtMs = Null
     /\ LiveState(stateBySymbol', symbol).pendingPaperTrade # <<>>
     /\ LiveTotal(LiveState(stateBySymbol', symbol)) > OPEN_THRESHOLD

\* C9: whenever a call of the live mirror opens a live trade, the live state was
\* NO_POSITION with no trade open, and with the opening the cooldown is null, a
\* pending paper trade is recorded and cumulative + unrealized PnL is above
\* OPEN_THRESHOLD.
C9_OpensOnlyWhenAllowed == [][\A symbol \in LiveSymbols : C9_OpenStep(symbol)]_vars

\* a mid-flight activation: opened by updateUnrealizedPnl at the current price
C9_Witness ==
  \E symbol \in DOMAIN stateBySymbol :
    /\ stateBySymbol[symbol].state = "POSITION"
    /\ stateBySymbol[symbol].pendingPaperTrade # <<>>
    /\ stateBySymbol[symbol].openTrade # <<>>
    /\ stateBySymbol[symbol].openTrade[1].entryPrice
         # stateBySymbol[symbol].pendingPaperTrade[1].entryPrice
    /\ LiveTotal(stateBySymbol[symbol]) > OPEN_THRESHOLD
    /\ sent = <<[kind |-> "ENTRY", symbol |-> symbol,
                 refPrice |-> stateBySymbol[symbol].openTrade[1].entryPrice]>>

C10_UpdateStep(symbol, unrealizedPnl, currentLtp) ==
  LET before == LiveState(stateBySymbol, symbol)
      after == LiveState(stateBySymbol', symbol)
      totalBefore == LiveTotal(before)
      totalAfter == before.cumulativePnl + unrealizedPnl
      closed == before.openTrade # <<>> /\ after.openTrade = <<>>
  IN  ( /\ after.unrealizedPnl = unrealizedPnl
        /\ UpdateUnrealizedPnl(symbol, unrealizedPnl, currentLtp) )
      => /\ closed <=> (before.state = "POSITION" /\ totalAfter < CLOSE_THRESHOLD)
         /\ closed => after.state = "NO_POSITION"
         /\ ( /\ before.state = "POSITION"
              /\ totalBefore > OPEN_THRESHOLD
              /\ totalAfter >= CLOSE_THRESHOLD
              /\ totalAfter <= OPEN_THRESHOLD )
            => /\ after.state = "POSITION"
               /\ after.openTrade = before.openTrade

\* C10: a call of updateUnrealizedPnl closes the open live trade exactly when
\* the live state is POSITION and cumulative + new unrealized PnL is below
\* CLOSE_THRESHOLD; a total falling from above OPEN_THRESHOLD into
\* [CLOSE_THRESHOLD, OPEN_THRESHOLD] leaves the live trade open.
C10_DeadZone ==
  [][\A symbol \in LiveSymbols, u \in PnlValues, ltp \in OptionalPrices :
       C10_UpdateStep(symbol, u, ltp)]_vars

\* a protective close has just happened: total below CLOSE_THRESHOLD, the paper
\* trade still pending, the cooldown anchored now
C10_Witness ==
  \E symbol \in DOMAIN stateBySymbol :
    /\ stateBySymbol[symbol].state = "NO_POSITION"
    /\ stateBySymbol[symbol].pendingPaperTrade # <<>>
    /\ stateBySymbol[symbol].blockedAtMs = now
    /\ LiveTotal(stateBySymbol[symbol]) < CLOSE_THRESHOLD
    /\ HasSent("EXIT", symbol)
    /\ stateBySymbol[symbol].trades # <<>>
    /\ Head(stateBySymbol[symbol].trades).action = "EXIT"

C11_CloseStep(symbol, unrealizedPnl, currentLtp) ==
  LET before == LiveState(stateBySymbol, symbol)
      after == LiveState(stateBySymbol', symbol)
      totalAfter == before.cumulativePnl + unrealizedPnl
      exitPrice == IF currentLtp # Null THEN currentLtp ELSE before.openTrade[1].entryPrice
  IN  ( /\ before.state = "POSITION"
        /\ totalAfter < CLOSE_THRESHOLD
        /\ after.unrealizedPnl = unrealizedPnl
        /\ UpdateUnrealizedPnl(symbol, unrealizedPnl, currentLtp) )
      => /\ after.state = "NO_POSITION"
         /\ after.openTrade = <<>>
         /\ Len(after.trades) = Len(before.trades) + 1
         /\ Tail(after.trades) = before.trades
         /\ Head(after.trades).action = "EXIT"
         /\ Head(after.trades).exitPrice = exitPrice
         /\ Head(after.trades).entryPrice = before.openTrade[1].entryPrice
         /\ after.blockedAtMs = now
         /\ after.pendingPaperTrade = before.pendingPaperTrade
         /\ sent' = <<[kind |-> "EXIT", symbol |-> symbol, refPrice |-> exitPrice]>>

\* C11: a protective close (updateUnrealizedPnl in POSITION with total PnL below
\* CLOSE_THRESHOLD) leaves the live state NO_POSITION with no open trade, puts
\* an EXIT row priced at the current price handed in (the open trade's entry
\* price if none was) in front of the rows, sets blockedAtMs to the time of the
\* call and leaves pendingPaperTrade as it was.
C11_ProtectiveClose ==
  [][\A symbol \in LiveSymbols, u \in PnlValues, ltp \in OptionalPrices :
       C11_CloseStep(symbol, u, ltp)]_vars

\* the pending paper trade re-opened the live position in a later minute: rows
\* ENTRY, protective EXIT (at the entry price, no current price was handed in),
\* ENTRY, all under the paper trade recorded at time 0
C11_Witness ==
  \E symbol \in DOMAIN stateBySymbol :
    LET state == stateBySymbol[symbol]
    IN  /\ state.state = "POSITION"
        /\ Len(state.trades) = 3
        /\ state.trades[1].action = "ENTRY"
        /\ state.trades[2].action = "EXIT"
        /\ state.trades[2].exitPrice = state.trades[2].entryPrice
        /\ state.trades[3].action = "ENTRY"
        /\ state.pendingPaperTrade # <<>>
        /\ state.pendingPaperTrade[1].openedAt = 0
        /\ state.trades[1].id.at > state.trades[3].id.at
        /\ LiveTotal(state) > OPEN_THRESHOLD

C12_UpdateStep(symbol, unrealizedPnl, currentLtp) ==
  LET before == LiveState(stateBySymbol, symbol)
      after == LiveState(stateBySymbol', symbol)
      closes == before.state = "POSITION" /\ before.cumulativePnl + unrealizedPnl < CLOSE_THRESHOLD
      anchor == IF closes THEN now ELSE before.blockedAtMs
  IN  ( /\ after.unrealizedPnl = unrealizedPnl
        /\ closes \/ before.blockedAtMs # Null
        /\ UpdateUnrealizedPnl(symbol, unrealizedPnl, currentLtp) )
      => /\ Minute(now) <= Minute(anchor)
            => /\ ~LiveOpened(symbol)
               /\ ~HasSent("ENTRY", symbol)'
               /\ after.blockedAtMs # Null
               /\ Minute(after.blockedAtMs) = Minute(now)
         /\ LiveOpened(symbol) => Minute(now) > Minute(anchor)

---------------------------------------------------------------------------
(* Claims about replayed events *)

\* the tick event (token, price, timestamp) applied to the state it produced
C13_TickStep(ltp, t) ==
  LET tick == [instrument_token |-> NiftyToken, last_price |-> ltp]
      once == GetOr(fsmByToken', NiftyToken, defaultFsm)
  IN  ReduceTick(tick, t)
      => applyTickTransition(once, getTickLtp(tick), t).next = once

C13_BinanceStep(symbol, price, t) ==
  LET once == GetOr(fsmBySymbol', symbol, defaultFsm)
  IN  ReduceBinance([symbol |-> symbol, price |-> price], t)
      => applyTickTransition(once, price, t).next = once

C13_SignalStep(symbol, p, stoppx, t) ==
  LET payload == [symbol |-> symbol, intent |-> p[1], side |-> p[2], stoppx |-> stoppx]
      signal == getSignalType(payload)
      token == getTokenForSymbol(symbol, symbolLookup)
      once == IF isBinanceSymbol(symbol) THEN GetOr(fsmBySymbol', symbol, defaultFsm)
              ELSE GetOr(fsmByToken', token, defaultFsm)
      latestLtp == IF isBinanceSymbol(symbol)
                   THEN getBinanceFallbackLtp(symbol, latestBinanceBySymbol')
                   ELSE GetOr(latestLtpByToken', token, Null)
  IN  ( /\ lastEvent'.signal = signal
        /\ ReduceSignal(payload, t) )
      => applySignalTransition(once, signal, payload, latestLtp, t) = once

\* the snapshot of the replayed event is the snapshot of the event: the ledger
\* is handed the snapshot it recorded last
C13_SnapshotStep(symbol, current) ==
  ( /\ Has(tradeState.lastSnapshotBySymbol, symbol)
    /\ tradeState.lastSnapshotBySymbol[symbol] = current
    /\ ReduceTradeState(symbol, current) )
  => /\ tradeState'.openBySymbol = tradeState.openBySymbol
     /\ Len(PaperRows(tradeState', symbol)) = Len(PaperRows(tradeState, symbol))
     /\ ExitRows(tradeState', symbol) = ExitRows(tradeState, symbol)
     /\ tradeState'.cumulativeBySymbol = tradeState.cumulativeBySymbol

\* the event or snapshot of a step, read off what the step recorded
C13_Step ==
  LET t == lastEvent'.receivedAt
      seen == tradeState'.lastSnapshotBySymbol
  IN  /\ lastEvent'.type = "tick" => C13_TickStep(lastEvent'.ltp, t)
      /\ lastEvent'.type = "binance" => C13_BinanceStep(BinanceSymbol, lastEvent'.ltp, t)
      /\ lastEvent'.type = "signal"
           => \A symbol \in {BinanceSymbol, TokenSymbol}, p \in Payloads, stoppx \in StopPrices :
                C13_SignalStep(symbol, p, stoppx, t)
      /\ lastEvent'.type = "none"
           => \A symbol \in DOMAIN seen : C13_SnapshotStep(symbol, seen[symbol])

\* C13: an event applied again to the state it has just produced (same content,
\* same timestamp) yields the FSM record it already produced, for ticks, feed
\* prices and signals from every FSM state, and a snapshot handed to the ledger
\* again right after it was recorded leaves the paper ledger's open trade, its number of rows, its closed-trade
\* rows and its cumulative PnL as they were: no second trade is opened and no
\* trade is closed twice.
C13_ReplayIdempotent == [][C13_Step]_vars

\* a trade was closed and the next one is open on a BUYPOSITION snapshot whose
\* price is the open trade's entry price: the snapshot that opened it, seen once
\* or seen again
C13_Witness ==
  \E symbol \in DOMAIN tradeState.openBySymbol :
    /\ Has(tradeState.lastSnapshotBySymbol, symbol)
    /\ tradeState.lastSnapshotBySymbol[symbol].state = "BUYPOSITION"
    /\ tradeState.lastSnapshotBySymbol[symbol].ltp = tradeState.openBySymbol[symbol].entryPrice
    /\ Len(PaperRows(tradeState, symbol)) = 3
    /\ Cardinality(ExitRows(tradeState, symbol)) = 1
    /\ PaperRows(tradeState, symbol)[1].id = tradeState.openBySymbol[symbol].id
    /\ PaperRows(tradeState, symbol)[1].id.at > PaperRows(tradeState, symbol)[2].id.at

---------------------------------------------------------------------------
(* Claims about the live mirror's closes and notifications *)

C14_CloseStep(symbol, exitPrice) ==
  LET before == LiveState(stateBySymbol, symbol)
      after == LiveState(stateBySymbol', symbol)
  IN  ( /\ after.cumulativePnl = before.cumulativePnl
        /\ after.unrealizedPnl = before.unrealizedPnl
        /\ after.blockedAtMs = before.blockedAtMs
        /\ OnPaperTradeClose(symbol, exitPrice) )
      => /\ after.pendingPaperTrade = <<>>
         /\ after.state = "NO_POSITION"
         /\ after.openTrade = <<>>
         /\ before.openTrade # <<>>
              => /\ Len(after.trades) = Len(before.trades) + 1
                 /\ Tail(after.trades) = before.trades
                 /\ Head(after.trades).action = "EXIT"
                 /\ Head(after.trades).exitPrice = exitPrice
                 /\ Head(after.trades).entryPrice = before.openTrade[1].entryPrice
                 /\ sent' = <<[kind |-> "EXIT", symbol |-> symbol, refPrice |-> exitPrice]>>

\* C14: after onPaperTradeClose no paper trade is pending and the live state is
\* NO_POSITION with no open trade; if a live trade was open, one EXIT row at the
\* given exit price was put in front of the rows and one EXIT notification sent,
\* whatever total PnL is and whether or not a cooldown is active.
C14_PaperCloseCloses ==
  [][\A symbol \in LiveSymbols, exitPrice \in ExitPrices :
       C14_CloseStep(symbol, exitPrice)]_vars

\* the paper close closed a live trade while total PnL was above OPEN_THRESHOLD
\* and a cooldown was active
C14_Witness ==
  \E symbol \in DOMAIN stateBySymbol :
    LET state == stateBySymbol[symbol]
    IN  /\ state.state = "NO_POSITION"
        /\ state.pendingPaperTrade = <<>>
        /\ state.blockedAtMs # Null
        /\ LiveTotal(state) > OPEN_THRESHOLD
        /\ state.trades # <<>>
        /\ Head(state.trades).action = "EXIT"
        /\ sent = <<[kind |-> "EXIT", symbol |-> symbol,
                     refPrice |-> Head(state.trades).exitPrice]>>

RECURSIVE SumLiveRealized(_)
SumLiveRealized(rows) ==
  IF rows = <<>> THEN 0
  ELSE (IF Head(rows).action = "EXIT" THEN Head(rows).realizedPnl ELSE 0)
       + SumLiveRealized(Tail(rows))

\* C15 as stated: a live position's cumulativePnl is the sum of the realizedPnl
\* of its EXIT rows.
C15_CumulativeIsLiveRealizedSum ==
  \A symbol \in DOMAIN stateBySymbol :
    stateBySymbol[symbol].cumulativePnl = SumLiveRealized(stateBySymbol[symbol].trades)

C15_Step(symbol) ==
  LET before == LiveState(stateBySymbol, symbol)
      after == LiveState(stateBySymbol', symbol)
  IN  /\ \A c \in CumulativeValues :
           ( /\ after.unrealizedPnl = 0
             /\ sent' = <<>>
             /\ UpdateCumulativePnl(symbol, c) )
           => after.cumulativePnl = c
      /\ after.cumulativePnl # before.cumulativePnl
           => \/ \E c \in CumulativeValues : UpdateCumulativePnl(symbol, c)
              \/ ClearAll /\ after.cumulativePnl = 0
      /\ ( /\ after.trades # <<>>
           /\ after.trades # before.trades
           /\ Head(after.trades).action = "EXIT" )
           => /\ after.cumulativePnl = before.cumulativePnl
              /\ Head(after.trades).cumulativePnl = before.cumulativePnl

\* C15 (amended): a live position's cumulativePnl is the paper ledger's
\* cumulative PnL handed to the last updateCumulativePnl call: that call sets it
\* to its argument, no other operation changes it (clearAll drops the position,
\* which starts again at 0), and a live close leaves it as it was and copies it
\* onto the EXIT row without adding the row's realizedPnl.
C15_CumulativeIsPaperCumulative ==
  [][\A symbol \in LiveSymbols : C15_Step(symbol)]_vars

\* a live trade has just been closed with a realized PnL other than 0 and
\* cumulativePnl is still the paper ledger's figure
C15_Witness ==
  \E symbol \in DOMAIN stateBySymbol :
    LET state == stateBySymbol[symbol]
    IN  /\ state.trades # <<>>
        /\ Head(state.trades).action = "EXIT"
        /\ Head(state.trades).realizedPnl # 0
        /\ HasSent("EXIT", symbol)
        /\ state.cumulativePnl = OPEN_THRESHOLD + 1
        /\ Head(state.trades).cumulativePnl = state.cumulativePnl
        /\ SumLiveRealized(state.trades) # state.cumulativePnl

\* the order notifications a step owes for a symbol: ENTRY with the live entry
\* price when it opens a live trade, EXIT with the exit price when it closes one
C16_Step(symbol) ==
  LET before == LiveState(stateBySymbol, symbol)
      after == LiveState(stateBySymbol', symbol)
  IN  /\ (before.state = "NO_POSITION" /\ after.state = "POSITION")
           => sent' = <<[kind |-> "ENTRY", symbol |-> symbol,
                         refPrice |-> after.openTrade[1].entryPrice]>>
      /\ (before.state = "POSITION" /\ after.state = "NO_POSITION")
           => /\ after.trades # <<>>
              /\ Head(after.trades).action = "EXIT"
              /\ sent' = <<[kind |-> "EXIT", symbol |-> symbol,
                            refPrice |-> Head(after.trades).exitPrice]>>
      /\ (before.state = after.state /\ now' = now) => sent' = <<>>

\* C16: a step that takes a live position from NO_POSITION to POSITION sends
\* exactly one ENTRY notification with the symbol and the live entry price, a
\* step that takes it from POSITION to NO_POSITION sends exactly one EXIT
\* notification with the symbol and the exit price, and a call that does
\* neither sends none.
C16_EveryTransitionNotified ==
  [][\A symbol \in LiveSymbols : C16_Step(symbol)]_vars

---------------------------------------------------------------------------
(* Claims about untrusted input *)

TickStateUnchanged ==
  UNCHANGED <<ticks, latestLtpByToken, latestBinanceBySymbol, fsmByToken, fsmBySymbol>>

C17_Step ==
  LET t == lastEvent'.receivedAt
  IN  /\ lastEvent'.type = "tick"
           => \A tick \in MalformedTicks : ReduceTick(tick, t) => TickStateUnchanged
      /\ lastEvent'.type = "binance"
           => \A payload \in MalformedPrices : ReduceBinance(payload, t) => TickStateUnchanged

\* C17: a tick without a numeric instrument token or without a numeric last
\* price, and a feed price without a numeric price or without symbol and token,
\* leave the FSM maps, the latest-price maps and the recent-ticks list as they
\* were.
C17_MalformedEventsDropped == [][C17_Step]_vars

\* the FSM record of an instrument key; a key not yet in the Map reads as the
\* default record (fsmByToken.get(token) ?? this.defaultFsm())
FsmOfToken(byToken, token) == GetOr(byToken, token, defaultFsm)
FsmOfSymbol(bySymbol, symbol) == GetOr(bySymbol, symbol, defaultFsm)

\* the step applied a signal that getSignalType gave no direction
UnclassifiedSignalStep == lastEvent'.type = "signal" /\ lastEvent'.signal = "NONE"

\* the step applied this signal, for a symbol that is neither feed-tracked nor
\* resolves to a token
C18_UnresolvedSignal(symbol, p, t) ==
  LET payload == [symbol |-> symbol, intent |-> p[1], side |-> p[2], stoppx |-> Null]
  IN  /\ ~isBinanceSymbol(symbol)
      /\ getTokenForSymbol(symbol, symbolLookup) = Null
      /\ lastEvent'.signal = getSignalType(payload)
      /\ ReduceSignal(payload, t)

C18_Step ==
  /\ UnclassifiedSignalStep
       => /\ \A token \in Tokens :
               FsmOfToken(fsmByToken', token) = FsmOfToken(fsmByToken, token)
          /\ \A s \in {BinanceSymbol} :
               FsmOfSymbol(fsmBySymbol', s) = FsmOfSymbol(fsmBySymbol, s)
          /\ UNCHANGED <<ticks, latestLtpByToken, latestBinanceBySymbol>>
          /\ lastLog' = <<>>
  /\ lastEvent'.type = "signal"
       => \/ TickStateUnchanged
          \/ \A symbol \in UnresolvedSymbols, p \in UnresolvedPayloads :
               ~C18_UnresolvedSignal(symbol, p, lastEvent'.receivedAt)

\* C18: a signal that getSignalType gives no direction leaves every FSM record
\* (state, threshold, threshold history, the three timestamps) as it was and
\* logs no transition, and a signal for a symbol that is neither feed-tracked
\* nor resolves to a token leaves the whole tick state unchanged, whatever its
\* direction.
C18_UnclassifiedSignalIgnored == [][C18_Step]_vars

\* a signal without a direction has just been applied to an instrument that is
\* in position, and the position stands
C18_Witness ==
  /\ lastEvent.type = "signal"
  /\ lastEvent.signal = "NONE"
  /\ lastLog = <<>>
  /\ \E fsm \in AllFsm :
       /\ fsm.state = "BUYPOSITION"
       /\ fsm.lastCheckedAtMs # Null
       /\ fsm.lastCheckedAtMs < lastEvent.receivedAt

---------------------------------------------------------------------------
(* Claims about two instruments and two price streams *)

\* what an event for the feed symbol reads and writes / what an event for the
\* exchange instrument reads and writes
FeedSideUnchanged ==
  /\ FsmOfSymbol(fsmBySymbol', BinanceSymbol) = FsmOfSymbol(fsmBySymbol, BinanceSymbol)
  /\ GetOr(latestBinanceBySymbol', BinanceSymbol, Null)
       = GetOr(latestBinanceBySymbol, BinanceSymbol, Null)
TokenSideUnchanged ==
  /\ FsmOfToken(fsmByToken', NiftyToken) = FsmOfToken(fsmByToken, NiftyToken)
  /\ GetOr(latestLtpByToken', NiftyToken, Null) = GetOr(latestLtpByToken, NiftyToken, Null)

\* the other instrument of an event for this symbol is left alone
OtherSideUnchanged(symbol) ==
  IF isBinanceSymbol(symbol) THEN TokenSideUnchanged ELSE FeedSideUnchanged

C19_Step ==
  LET t == lastEvent'.receivedAt
  IN  /\ lastEvent'.type = "tick"
           => ( ReduceTick([instrument_token |-> NiftyToken, last_price |-> lastEvent'.ltp], t)
                => FeedSideUnchanged )
      /\ lastEvent'.type = "binance"
           => \A symbol \in {BinanceSymbol, TokenSymbol} :
                ReduceBinance([symbol |-> symbol, price |-> lastEvent'.ltp], t)
                => OtherSideUnchanged(symbol)
      /\ lastEvent'.type = "signal"
           => \A symbol \in {BinanceSymbol, TokenSymbol} : \A p \in PairPayloads(symbol) :
                ReduceSignal([symbol |-> symbol, intent |-> p[1], side |-> p[2],
                              stoppx |-> MaxPrice - 1], t)
                => OtherSideUnchanged(symbol)

\* C19: a tick, signal or feed price for one instrument key leaves the FSM record
\* of the other instrument key, and the latest price that record's transitions
\* read, as they were; an event's effect on its own record is a function of that
\* record, that price and the event, so two events for different instruments
\* give the same FSM records in either order.
C19_InstrumentsIndependent == [][C19_Step]_vars

\* a tick has just taken the exchange instrument into position while the feed
\* symbol sits blocked
C19_Witness ==
  /\ lastEvent.type = "tick"
  /\ lastLog # <<>>
  /\ FsmOfToken(fsmByToken, NiftyToken).state = "BUYPOSITION"
  /\ FsmOfToken(fsmByToken, NiftyToken).lastCheckedAtMs = lastEvent.receivedAt
  /\ FsmOfSymbol(fsmBySymbol, BinanceSymbol).state = "NOPOSITION_BLOCKED"
  /\ FsmOfSymbol(fsmBySymbol, BinanceSymbol).lastBlockedAtMs < lastEvent.receivedAt

\* the transitions a price event logged, without the labels of its stream
Transitions(log) ==
  [i \in 1..Len(log) |-> <<log[i].prevState, log[i].nextState, log[i].threshold,
                           log[i].ltp, log[i].at>>]

\* next record and logged transitions (the intermediate record's included) of a
\* price for a record, as the tick branch computes them (lines 152-163)
TickOutcome(existing, ltp, receivedAt) ==
  LET result == applyTickTransition(existing, ltp, receivedAt)
  IN  [ next |-> result.next,
        transitions |-> Transitions(logResult("tick", NoString, existing, result, ltp,
                                              receivedAt)) ]

C20_Step ==
  LET t == lastEvent'.receivedAt
      ltp == lastEvent'.ltp
      ofToken == TickOutcome(FsmOfToken(fsmByToken, NiftyToken), ltp, t)
      ofSymbol == TickOutcome(FsmOfSymbol(fsmBySymbol, BinanceSymbol), ltp, t)
  IN  /\ lastEvent'.type = "tick"
           => ( ReduceTick([instrument_token |-> NiftyToken, last_price |-> ltp], t)
                => /\ FsmOfToken(fsmByToken', NiftyToken) = ofToken.next
                   /\ Transitions(lastLog') = ofToken.transitions )
      /\ lastEvent'.type = "binance"
           => /\ ReduceBinance([symbol |-> TokenSymbol, price |-> ltp], t)
                   => /\ FsmOfToken(fsmByToken', NiftyToken) = ofToken.next
                      /\ Transitions(lastLog') = ofToken.transitions
              /\ ReduceBinance([symbol |-> BinanceSymbol, price |-> ltp], t)
                   => /\ FsmOfSymbol(fsmBySymbol', BinanceSymbol) = ofSymbol.next
                      /\ Transitions(lastLog') = ofSymbol.transitions

\* C20: for the same FSM record, price and timestamp, a tick and a feed price
\* (for the exchange instrument's symbol or for the feed symbol) leave the same
\* next record and log the same transitions, the one through the intermediate
\* record included.
C20_StreamsAgree == [][C20_Step]_vars

\* a feed price for the exchange instrument's symbol has just lifted its block:
\* two transitions logged, through the intermediate record
C20_Witness ==
  /\ lastEvent.type = "binance"
  /\ Len(lastLog) = 2
  /\ lastLog[1].symbol = TokenSymbol
  /\ lastLog[1].prevState = "NOPOSITION_BLOCKED"
  /\ lastLog[1].nextState = "NOPOSITION_SIGNAL"
  /\ lastLog[2].nextState = "BUYPOSITION"
  /\ FsmOfToken(fsmByToken, NiftyToken).state = "BUYPOSITION"
  /\ \E i \in 1..Len(ticks) : getInstrumentToken(ticks[i]) = NiftyToken

---------------------------------------------------------------------------
(* Claims about the signal classifiers and the alternation tracker *)

TrackedPayload(symbol, p) ==
  [symbol |-> symbol, intent |-> p[1], side |-> p[2], stoppx |-> MaxPrice - 1]

\* the direction reduceSignalState gives a payload
TrackerSignal(payload) ==
  WebhookState_getSignalType(normalizeString(payload.intent), normalizeString(payload.side))

C21_Step ==
  lastEvent'.type = "signal"
    => \A symbol \in TrackedSymbols \ {NoString}, p \in TrackedPayloads :
         Webhook(TrackedPayload(symbol, p), lastEvent'.receivedAt)
           => TrackerSignal(TrackedPayload(symbol, p)) = getSignalType(TrackedPayload(symbol, p))

\* C21: for every webhook handed to both services, the state machine's
\* getSignalType and the alternation tracker's getSignalType return the same
\* direction (BUY, SELL or none).
C21_ClassifiersAgree == [][C21_Step]_vars

\* the tracking record of a symbol under a filter mode
\* (state.fsmBySymbol.get(symbol) ?? this.defaultTracking())
Tracking(byMode, mode, symbol) == GetOr(byMode[mode].fsmBySymbol, symbol, defaultTracking)
SignalRows(byMode, mode, symbol) == GetOr(byMode[mode].bySymbol, symbol, <<>>)

FlagsKept(before, after) ==
  /\ before.alternateSignal => after.alternateSignal
  /\ before.buySellSell => after.buySellSell
  /\ before.sellBuyBuy => after.sellBuyBuy

C22_Step(mode, symbol) ==
  LET before == Tracking(signalStateByMode, mode, symbol)
      after == Tracking(signalStateByMode', mode, symbol)
  IN  IF signalStateByMode' = clearSignals(signalStateByMode, mode)
      THEN after = defaultTracking /\ SignalRows(signalStateByMode', mode, symbol) = <<>>
      ELSE FlagsKept(before, after)

---------------------------------------------------------------------------
(* Claims about order submission *)

FailureLines == {"error: Backend responded with error", "error: Failed to send live signal"}

\* the step settled the fetch of a notification
SettledStep == DOMAIN liveSignalLog' # DOMAIN liveSignalLog /\ liveSignalLog' # EmptyMap

C23_Step ==
  SettledStep
    => /\ UNCHANGED <<stateBySymbol, liveTradesSubject, liveModeSubject, blockedUntilSubject,
                      sent>>
       /\ \A i \in DOMAIN liveSignalLog' : ~liveSignalLog'[i].rejected

\* C23: when the request of an ENTRY or EXIT notification settles, with a 2xx
\* response, an error response or a network error, the live state, the open
\* trade, the trade rows, the cooldown, the pending paper trade and the
\* published maps stay as the open or close left them, and the promise of
\* sendLiveWebhookMessage does not reject.
C23_FailureKeepsState == [][C23_Step]_vars

\* the request of an ENTRY failed and the live trade it announced is still open
C23_Witness ==
  \E i \in DOMAIN liveSignalLog :
    /\ liveSignalLog[i].line \in FailureLines
    /\ sent[i].kind = "ENTRY"
    /\ LiveState(stateBySymbol, sent[i].symbol).state = "POSITION"
    /\ LiveState(stateBySymbol, sent[i].symbol).openTrade # <<>>
    /\ LiveState(stateBySymbol, sent[i].symbol).openTrade[1].entryPrice = sent[i].refPrice

---------------------------------------------------------------------------
(* Claims about the price rules of the tick FSM *)

C24_Entry(m, type) ==
  \A k \in DOMAIN m :
    LET cur == m[k]
        t == lastEvent'.receivedAt
        ltp == lastEvent'.ltp
    IN  ( /\ lastEvent'.type = type /\ ltp # Null
          /\ cur.state = "NOPOSITION_SIGNAL"
          /\ cur.threshold # Null )
        =>
        /\ m'[k].state = IF ltp > cur.threshold THEN "BUYPOSITION" ELSE "NOPOSITION_BLOCKED"
        /\ m'[k].lastCheckedAtMs = t
        /\ m'[k].lastBlockedAtMs = IF ltp > cur.threshold THEN Null ELSE t
        /\ m'[k] = [cur EXCEPT !.state = m'[k].state,
                               !.lastCheckedAtMs = m'[k].lastCheckedAtMs,
                               !.lastBlockedAtMs = m'[k].lastBlockedAtMs]

\* C24: a price event applied to a record in NOPOSITION_SIGNAL with a non-null
\* threshold moves it to BUYPOSITION iff price > threshold and to
\* NOPOSITION_BLOCKED otherwise (price = threshold blocks), sets
\* lastCheckedAtMs to the event time and lastBlockedAtMs to the event time when
\* blocking and to null when entering; the other fields keep their values.
C24_EntryCheck ==
  [][C24_Entry(fsmByToken, "tick") /\ C24_Entry(fsmBySymbol, "binance")]_vars

\* a tick at exactly the threshold blocked a record that was awaiting entry
C24_Witness ==
  /\ lastEvent.type = "tick"
  /\ Len(lastLog) = 1
  /\ lastLog[1].prevState = "NOPOSITION_SIGNAL"
  /\ lastLog[1].nextState = "NOPOSITION_BLOCKED"
  /\ \E k \in DOMAIN fsmByToken :
       /\ fsmByToken[k].state = "NOPOSITION_BLOCKED"
       /\ lastEvent.ltp = fsmByToken[k].threshold
       /\ fsmByToken[k].lastCheckedAtMs = lastEvent.receivedAt
       /\ fsmByToken[k].lastBlockedAtMs = lastEvent.receivedAt

C25_InPosition(m, type) ==
  \A k \in DOMAIN m :
    LET cur == m[k]
        t == lastEvent'.receivedAt
        ltp == lastEvent'.ltp
    IN  ( /\ lastEvent'.type = type /\ ltp # Null
          /\ cur.state = "BUYPOSITION" )
        =>
        IF ltp >= cur.threshold
        THEN m'[k] = cur
        ELSE m'[k] = [cur EXCEPT !.state = "NOPOSITION_BLOCKED",
                                 !.lastCheckedAtMs = t,
                                 !.lastBlockedAtMs = t]

\* C25: a price event applied to a record in BUYPOSITION leaves it unchanged
\* when price >= threshold and moves it to NOPOSITION_BLOCKED with
\* lastCheckedAtMs = lastBlockedAtMs = event time when price < threshold; this
\* holds for every price event met in position, however many came before it
\* since the signal.
C25_PositionCheck ==
  [][C25_InPosition(fsmByToken, "tick") /\ C25_InPosition(fsmBySymbol, "binance")]_vars

\* a tick below the threshold blocked a record that had entered the position on
\* an earlier price event
C25_Witness ==
  /\ lastEvent.type = "tick"
  /\ Len(lastLog) = 1
  /\ lastLog[1].prevState = "BUYPOSITION"
  /\ lastLog[1].nextState = "NOPOSITION_BLOCKED"
  /\ \E k \in DOMAIN fsmByToken :
       /\ fsmByToken[k].state = "NOPOSITION_BLOCKED"
       /\ lastEvent.ltp < fsmByToken[k].threshold
       /\ fsmByToken[k].lastCheckedAtMs = lastEvent.receivedAt
       /\ fsmByToken[k].lastBlockedAtMs = lastEvent.receivedAt

\* the entry comparisons among the transitions one event logged: those out of
\* NOPOSITION_SIGNAL
EntryComparisons(log) == {i \in 1..Len(log) : log[i].prevState = "NOPOSITION_SIGNAL"}

C26_FirstPrice(m, type) ==
  \A k \in DOMAIN m :
    ( /\ lastEvent'.type = type /\ lastEvent'.ltp # Null
      /\ m[k].state = "NOPOSITION_SIGNAL" )
    => /\ m'[k].state \in Evaluated
       /\ m'[k].lastCheckedAtMs = lastEvent'.receivedAt
       /\ Cardinality(EntryComparisons(lastLog')) = 1

\* C26 as stated: in every signal episode the first price event applied after
\* the signal performs the entry comparison.
C26_ComparedByFirstPrice ==
  [][C26_FirstPrice(fsmByToken, "tick") /\ C26_FirstPrice(fsmBySymbol, "binance")]_vars

C26_PriceStep(m, type) ==
  \A k \in DOMAIN m :
    LET cur == m[k]
        t == lastEvent'.receivedAt
        ltp == lastEvent'.ltp
    IN  (lastEvent'.type = type /\ ltp # Null)
        => /\ (cur.state = "NOPOSITION_SIGNAL" /\ cur.threshold # Null)
                => /\ cur.lastCheckedAtMs = Null
                   /\ m'[k].state = checkedState(ltp, cur.threshold)
                   /\ m'[k].lastCheckedAtMs = t
                   /\ Cardinality(EntryComparisons(lastLog')) = 1
                   /\ lastLog'[1].ltp = ltp
           /\ (cur.state = "NOPOSITION_SIGNAL" /\ cur.threshold = Null)
                => m'[k] = cur /\ lastLog' = <<>>
           /\ cur.state \in Evaluated
                => \/ EntryComparisons(lastLog') = {}
                   \/ /\ cur.state = "NOPOSITION_BLOCKED"
                      /\ BoundaryAfter(cur.lastBlockedAtMs, t)
                      /\ m'[k].lastSignalAtMs = t
                      /\ EntryComparisons(lastLog') = {2}

C26_SignalStep(m) ==
  ClassifiedSignalStep
    => /\ \A k \in DOMAIN m' : /\ m'[k].state = "NOPOSITION_SIGNAL"
                                /\ m'[k].lastCheckedAtMs = Null
       /\ \A i \in 1..Len(lastLog') : lastLog'[i].nextState = "NOPOSITION_SIGNAL"

\* C26 (amended): a classified signal never compares the price known at signal
\* time (the record is left awaiting entry, unchecked).  In an episode whose
\* threshold is non-null the entry comparison is made exactly once, by the
\* first price event applied after the signal and with that event's price,
\* whatever its timestamp (equal to the signal's included); later price events
\* of the episode make none, and a reactivation opens a new episode with its
\* own single comparison.  In an episode whose threshold is null no price
\* event makes the comparison.
C26_OneComparisonPerEpisode ==
  [][ /\ C26_PriceStep(fsmByToken, "tick") /\ C26_PriceStep(fsmBySymbol, "binance")
      /\ C26_SignalStep(fsmByToken) /\ C26_SignalStep(fsmBySymbol) ]_vars

\* a tick carrying the timestamp of the signal before it was compared and
\* entered the position
C26_Witness ==
  /\ lastEvent.type = "tick"
  /\ Len(lastLog) = 1
  /\ lastLog[1].prevState = "NOPOSITION_SIGNAL"
  /\ lastLog[1].nextState = "BUYPOSITION"
  /\ \E k \in DOMAIN fsmByToken :
       /\ fsmByToken[k].lastSignalAtMs = lastEvent.receivedAt
       /\ fsmByToken[k].lastCheckedAtMs = lastEvent.receivedAt
       /\ lastEvent.receivedAt > 0
       /\ lastEvent.ltp > fsmByToken[k].threshold

\* the record is one a price event must not touch
Unarmed(r) == r.threshold = Null \/ r.lastSignalAtMs = Null

\* every reachable record, put into any state with its threshold or its
\* lastSignalAtMs removed, comes back unchanged from applyTickTransition
C27_AnyState(ltp, t) ==
  \A r \in AllFsm \cup {defaultFsm}, s \in FsmStates :
    /\ applyTickTransition([r EXCEPT !.state = s, !.threshold = Null], ltp, t)
         = NoChange([r EXCEPT !.state = s, !.threshold = Null])
    /\ applyTickTransition([r EXCEPT !.state = s, !.lastSignalAtMs = Null], ltp, t)
         = NoChange([r EXCEPT !.state = s, !.lastSignalAtMs = Null])

C27_Step ==
  PriceStep
    => /\ lastEvent'.type = "tick"
            => \A token \in Tokens :
                 Unarmed(FsmOfToken(fsmByToken, token))
                   => /\ FsmOfToken(fsmByToken', token) = FsmOfToken(fsmByToken, token)
                      /\ lastLog' = <<>>
       /\ lastEvent'.type = "binance"
            => \A s \in {BinanceSymbol} :
                 Unarmed(FsmOfSymbol(fsmBySymbol, s))
                   => /\ FsmOfSymbol(fsmBySymbol', s) = FsmOfSymbol(fsmBySymbol, s)
                      /\ lastLog' = <<>>
       /\ C27_AnyState(lastEvent'.ltp, lastEvent'.receivedAt)

\* C27: a price event leaves a record whose threshold is null or whose
\* lastSignalAtMs is null exactly as it was, in every state, and logs no
\* transition; so a record armed with a null threshold stays in
\* NOPOSITION_SIGNAL under price events, and only a signal changes it.
C27_UnarmedPriceNoOp == [][C27_Step]_vars

\* a tick later than the signal has just been applied to a record armed without
\* a threshold, and the record still awaits entry, unchecked
C27_Witness ==
  /\ lastEvent.type = "tick" /\ lastEvent.ltp # Null
  /\ lastLog = <<>>
  /\ \E k \in DOMAIN fsmByToken :
       /\ fsmByToken[k].state = "NOPOSITION_SIGNAL"
       /\ fsmByToken[k].threshold = Null
       /\ fsmByToken[k].lastCheckedAtMs = Null
       /\ lastEvent.receivedAt > fsmByToken[k].lastSignalAtMs

---------------------------------------------------------------------------
(* Claims about the shape of the tick FSM *)

\* the transitions a price event may log, as <<prevState, nextState>>
PriceTransitions ==
  { <<"NOPOSITION_SIGNAL", "BUYPOSITION">>, <<"NOPOSITION_SIGNAL", "NOPOSITION_BLOCKED">>,
    <<"BUYPOSITION", "NOPOSITION_BLOCKED">>, <<"NOPOSITION_BLOCKED", "NOPOSITION_SIGNAL">> }

C28_Logged ==
  \A i \in 1..Len(lastLog') :
    IF lastLog'[i].source = "signal"
    THEN lastLog'[i].nextState = "NOPOSITION_SIGNAL"
    ELSE /\ <<lastLog'[i].prevState, lastLog'[i].nextState>> \in PriceTransitions
         /\ lastLog'[i].prevState = "NOPOSITION_BLOCKED"
              => /\ i = 1 /\ Len(lastLog') = 2
                 /\ lastLog'[2].prevState = "NOPOSITION_SIGNAL"
                 /\ lastLog'[2].nextState \in Evaluated

\* the change of one record over a step, read off the records themselves
C28_Record(before, after) ==
  /\ before.state # "NOSIGNAL" => after.state # "NOSIGNAL"
  /\ (after.state = "BUYPOSITION" /\ after # before)
       => /\ PriceStep
          /\ lastLog'[Len(lastLog')].prevState = "NOPOSITION_SIGNAL"
          /\ lastLog'[Len(lastLog')].nextState = "BUYPOSITION"
  /\ after.state # before.state
       => \/ ClassifiedSignalStep /\ after.state = "NOPOSITION_SIGNAL"
          \/ PriceStep /\ before.state = "NOPOSITION_SIGNAL" /\ after.state \in Evaluated
          \/ PriceStep /\ before.state = "BUYPOSITION" /\ after.state = "NOPOSITION_BLOCKED"
          \/ PriceStep /\ before.state = "NOPOSITION_BLOCKED" /\ after.state = "BUYPOSITION"
               /\ Len(lastLog') = 2

\* some signal followed by some price takes the record out of its state
C28_CanLeave(r) ==
  \E stoppx \in StopPrices, ltp \in Prices, t \in Times :
    LET armed == applySignalTransition(r, "BUY", [stoppx |-> stoppx], ltp, t)
    IN  \/ armed.state # r.state
        \/ applyTickTransition(armed, ltp, t).next.state # r.state

C28_Step ==
  /\ C28_Logged
  /\ \A token \in Tokens :
       /\ C28_Record(FsmOfToken(fsmByToken, token), FsmOfToken(fsmByToken', token))
       /\ C28_CanLeave(FsmOfToken(fsmByToken', token))
  /\ \A s \in {BinanceSymbol} :
       /\ C28_Record(FsmOfSymbol(fsmBySymbol, s), FsmOfSymbol(fsmBySymbol', s))
       /\ C28_CanLeave(FsmOfSymbol(fsmBySymbol', s))

\* C28: the only transitions are NOSIGNAL -> NOPOSITION_SIGNAL and any state
\* -> NOPOSITION_SIGNAL on a signal, NOPOSITION_SIGNAL -> BUYPOSITION or
\* NOPOSITION_BLOCKED and BUYPOSITION -> NOPOSITION_BLOCKED on a price, and
\* NOPOSITION_BLOCKED -> NOPOSITION_SIGNAL -> BUYPOSITION or NOPOSITION_BLOCKED
\* on the price of a reactivation; NOSIGNAL is never re-entered, BUYPOSITION is
\* entered only out of NOPOSITION_SIGNAL, and every state can be left.
C28_TransitionGraph == [][C28_Step]_vars

\* a tick reactivated a blocked record of the exchange instrument, which went
\* through NOPOSITION_SIGNAL into the position
C28_Witness ==
  /\ lastEvent.type = "tick"
  /\ Len(lastLog) = 2
  /\ <<lastLog[1].prevState, lastLog[1].nextState>> = <<"NOPOSITION_BLOCKED", "NOPOSITION_SIGNAL">>
  /\ <<lastLog[2].prevState, lastLog[2].nextState>> = <<"NOPOSITION_SIGNAL", "BUYPOSITION">>
  /\ \E k \in DOMAIN fsmByToken : fsmByToken[k].state = "BUYPOSITION"

---------------------------------------------------------------------------
(* Claims about the thresholds a signal assigns *)

\* the record a signal for `symbol` is applied to, before the step
SignalledBefore(symbol) ==
  IF isBinanceSymbol(symbol) THEN FsmOfSymbol(fsmBySymbol, symbol)
  ELSE FsmOfToken(fsmByToken, getTokenForSymbol(symbol, symbolLookup))

\* the price of the last tick received for the token (null before the first)
LastTickPrice(token) ==
  LET own == SelectSeq(ticks, LAMBDA tick : getInstrumentToken(tick) = token)
  IN  IF own = <<>> THEN Null ELSE getTickLtp(own[1])

\* the frame of a BUY and of a SELL, whatever price the SELL takes
C29_Frame(symbol, signal, stoppx) ==
  LET before == SignalledBefore(symbol)
      after == SignalledRecord(symbol)
  IN  IF signal = "BUY"
      THEN /\ after.threshold = stoppx
           /\ after.savedBUYThreshold = stoppx
           /\ after.lastBUYThreshold = stoppx
           /\ after.lastSELLThreshold = before.lastSELLThreshold
      ELSE /\ after.lastSELLThreshold = after.threshold
           /\ after.savedBUYThreshold = before.savedBUYThreshold
           /\ after.lastBUYThreshold = before.lastBUYThreshold

\* the step applied this classified signal
C29_Signal(symbol, p, stoppx) ==
  /\ lastEvent'.signal = getSignalType([intent |-> p[1], side |-> p[2]])
  /\ ReduceSignal([symbol |-> symbol, intent |-> p[1], side |-> p[2], stoppx |-> stoppx],
                  lastEvent'.receivedAt)

C29_StatedStep ==
  ClassifiedSignalStep
    => \A symbol \in {BinanceSymbol, TokenSymbol}, p \in DirectedPayloads, stoppx \in StopPrices :
         C29_Signal(symbol, p, stoppx)
           => /\ C29_Frame(symbol, lastEvent'.signal, stoppx)
              /\ lastEvent'.signal = "SELL"
                   => SignalledRecord(symbol).threshold =
                        IF isBinanceSymbol(symbol)
                        THEN GetOr(latestBinanceBySymbol, symbol, Null)
                        ELSE LastTickPrice(getTokenForSymbol(symbol, symbolLookup))

\* C29 as stated: a BUY sets threshold, savedBUYThreshold and lastBUYThreshold
\* to the stop price (null if absent) and keeps lastSELLThreshold; a SELL keeps
\* savedBUYThreshold and lastBUYThreshold and sets threshold and
\* lastSELLThreshold to the last feed price of a feed-tracked symbol and to the
\* last tick price of a token instrument.
C29_SellTakesLastTick == [][C29_StatedStep]_vars

\* the latest price maps are written by the price events only: a tick writes
\* its price under its token, a feed price under its symbol and, when the
\* symbol resolves to a token, under that token as well
C29_LatestPrice ==
  /\ lastEvent'.type = "tick"
       => /\ latestLtpByToken' = Put(latestLtpByToken, NiftyToken, lastEvent'.ltp)
          /\ UNCHANGED latestBinanceBySymbol
  /\ lastEvent'.type = "signal" => UNCHANGED <<latestLtpByToken, latestBinanceBySymbol>>
  /\ lastEvent'.type = "binance"
       => \E symbol \in {BinanceSymbol, TokenSymbol} :
            /\ latestBinanceBySymbol' = Put(latestBinanceBySymbol, symbol, lastEvent'.ltp)
            /\ latestLtpByToken' =
                 IF isBinanceSymbol(symbol) THEN latestLtpByToken
                 ELSE Put(latestLtpByToken, getTokenForSymbol(symbol, symbolLookup),
                          lastEvent'.ltp)

C29_Step ==
  /\ C29_LatestPrice
  /\ ClassifiedSignalStep
       => \A symbol \in {BinanceSymbol, TokenSymbol}, p \in DirectedPayloads,
             stoppx \in StopPrices :
            C29_Signal(symbol, p, stoppx)
              => /\ C29_Frame(symbol, lastEvent'.signal, stoppx)
                 /\ lastEvent'.signal = "SELL"
                      => SignalledRecord(symbol).threshold =
                           IF isBinanceSymbol(symbol)
                           THEN GetOr(latestBinanceBySymbol, symbol, Null)
                           ELSE GetOr(latestLtpByToken,
                                      getTokenForSymbol(symbol, symbolLookup), Null)

\* C29 (amended): a BUY sets threshold, savedBUYThreshold and lastBUYThreshold
\* to the stop price (null if absent) and keeps lastSELLThreshold; a SELL keeps
\* savedBUYThreshold and lastBUYThreshold and sets threshold and
\* lastSELLThreshold to the latest known price: for a feed-tracked symbol the
\* last feed price under that symbol, for a token instrument the price of the
\* last tick or feed price received for the token, whichever came later; null
\* when no price is known.
C29_SellTakesLatestPrice == [][C29_Step]_vars

\* a SELL for the exchange instrument has just taken the price of a feed price
\* that came after the last tick, over a BUY whose thresholds stand
C29_Witness ==
  /\ lastEvent.type = "signal" /\ lastEvent.signal = "SELL"
  /\ LET r == FsmOfToken(fsmByToken, NiftyToken)
     IN  /\ r.state = "NOPOSITION_SIGNAL"
         /\ r.threshold # Null
         /\ r.threshold = r.lastSELLThreshold
         /\ r.threshold = GetOr(latestLtpByToken, NiftyToken, Null)
         /\ r.threshold # LastTickPrice(NiftyToken)
         /\ LastTickPrice(NiftyToken) # Null
         /\ r.lastBUYThreshold # Null
         /\ r.savedBUYThreshold = r.lastBUYThreshold

---------------------------------------------------------------------------
(* Claims about the cooldown of the live mirror *)

\* the call takes total PnL from above OPEN_THRESHOLD to at or below it
CrossesDown(state, unrealizedPnl) ==
  /\ state.cumulativePnl + state.unrealizedPnl > OPEN_THRESHOLD
  /\ state.cumulativePnl + unrealizedPnl <= OPEN_THRESHOLD

\* the step is this updateUnrealizedPnl call and it crosses downward
C30_Crossing(symbol, unrealizedPnl, currentLtp) ==
  /\ LiveState(stateBySymbol', symbol).unrealizedPnl = unrealizedPnl
  /\ CrossesDown(LiveState(stateBySymbol, symbol), unrealizedPnl)
  /\ UpdateUnrealizedPnl(symbol, unrealizedPnl, currentLtp)

C30_FromNoPosition(symbol, unrealizedPnl, currentLtp) ==
  LET before == LiveState(stateBySymbol, symbol)
      after == LiveState(stateBySymbol', symbol)
  IN  (C30_Crossing(symbol, unrealizedPnl, currentLtp) /\ before.state = "NO_POSITION")
      => after.state = "NO_POSITION" /\ after.blockedAtMs = now

C30_InPosition(symbol, unrealizedPnl, currentLtp) ==
  LET before == LiveState(stateBySymbol, symbol)
      after == LiveState(stateBySymbol', symbol)
  IN  ( /\ C30_Crossing(symbol, unrealizedPnl, currentLtp)
        /\ before.state = "POSITION" /\ after.state = "POSITION" )
      => after.blockedAtMs = Null

\* C30: an updateUnrealizedPnl call that takes total PnL from above
\* OPEN_THRESHOLD to at or below it sets blockedAtMs to the current time when
\* the live state is NO_POSITION, and starts no cooldown (blockedAtMs stays
\* null) when a live position is open and stays open.
C30_CooldownOnlyWithoutPosition ==
  [][\A symbol \in LiveSymbols, u \in PnlValues, ltp \in OptionalPrices :
       /\ C30_FromNoPosition(symbol, u, ltp)
       /\ C30_InPosition(symbol, u, ltp)]_vars

\* the part of C30 about NO_POSITION alone
C30_CooldownWithoutPosition ==
  [][\A symbol \in LiveSymbols, u \in PnlValues, ltp \in OptionalPrices :
       C30_FromNoPosition(symbol, u, ltp)]_vars

---------------------------------------------------------------------------
(* Claims about the end of a cooldown of the live mirror *)

C31_Step(symbol, unrealizedPnl, currentLtp) ==
  LET before == LiveState(stateBySymbol, symbol)
      after == LiveState(stateBySymbol', symbol)
  IN  ( /\ after.unrealizedPnl = unrealizedPnl
        /\ CooldownOver(before)
        /\ before.state = "NO_POSITION"
        /\ before.pendingPaperTrade # <<>>
        /\ before.cumulativePnl + unrealizedPnl > OPEN_THRESHOLD
        /\ UpdateUnrealizedPnl(symbol, unrealizedPnl, currentLtp) )
      => /\ after.state = "POSITION"
         /\ after.blockedAtMs = Null
         /\ after.openTrade # <<>>
         /\ after.openTrade[1].id.at = now
         /\ after.openTrade[1].quantity = before.pendingPaperTrade[1].quantity
         /\ after.openTrade[1].lot = before.pendingPaperTrade[1].lot
         /\ after.openTrade[1].entryPrice =
              IF currentLtp # Null THEN currentLtp
              ELSE before.pendingPaperTrade[1].entryPrice
         /\ HasSent("ENTRY", symbol)'

\* every updateUnrealizedPnl call that finds the cooldown over opens the trade
C31_OpensInTheUpdate ==
  [][\A symbol \in LiveSymbols, u \in PnlValues, ltp \in OptionalPrices :
       C31_Step(symbol, u, ltp)]_vars

\* a symbol that is qualified when its cooldown is over gets its live trade
\* opened, unless it stops being qualified first
C31_EventuallyOpened ==
  \A symbol \in LiveSymbols :
    (CooldownOver(LiveState(stateBySymbol, symbol)) /\ Qualified(LiveState(stateBySymbol, symbol)))
      ~> ( \/ LiveState(stateBySymbol, symbol).state = "POSITION"
           \/ ~Qualified(LiveState(stateBySymbol, symbol)) )

\* C31: an updateUnrealizedPnl call made in a later minute than the cooldown
\* anchor, with the live state NO_POSITION, a pending paper trade and total PnL
\* above OPEN_THRESHOLD after the call, opens the live trade in that call with
\* the pending trade's quantity and lot, whether or not total PnL crossed the
\* threshold in the call; and while updateUnrealizedPnl keeps being called, a
\* symbol that is qualified when its cooldown is over is eventually in POSITION
\* or no longer qualified.
C31_OpensWhenCooldownExpires == C31_OpensInTheUpdate /\ C31_EventuallyOpened

\* a live trade opened in a later minute than the protective close before it,
\* from the paper trade that was pending before that close
C31_Witness ==
  \E symbol \in DOMAIN stateBySymbol :
    LET state == stateBySymbol[symbol]
    IN  /\ state.state = "POSITION"
        /\ Len(state.trades) >= 2
        /\ state.trades[1].action = "ENTRY"
        /\ state.trades[1].id.at = now
        /\ state.trades[2].action = "EXIT"
        /\ state.trades[1].timeIst \div SecondsPerMinute
             > state.trades[2].timeIst \div SecondsPerMinute
        /\ state.pendingPaperTrade # <<>>
        /\ state.pendingPaperTrade[1].openedAt <= state.trades[2].id.at
        /\ state.openTrade[1].quantity = state.pendingPaperTrade[1].quantity
        /\ state.blockedAtMs = Null

---------------------------------------------------------------------------
(* Claims about the compound diagnostics of the alternation tracker *)

\* the entry of the symbol in the snapshot the tracker is handed with a webhook
SnapshotAfter(symbol) ==
  LET snapshot == buildFsmSnapshot(fsmByToken', fsmBySymbol',
                                   latestLtpByToken', latestBinanceBySymbol')
  IN  IF symbol \in DOMAIN snapshot THEN <<snapshot[symbol]>> ELSE <<>>

\* the price of the snapshot is known and below the given threshold while the
\* state machine waits for its entry
PriceBelow(snapshot, threshold) ==
  /\ snapshot # <<>>
  /\ snapshot[1].state = "NOPOSITION_SIGNAL"
  /\ snapshot[1].ltp # Null
  /\ threshold # Null
  /\ snapshot[1].ltp < threshold

\* the tracker's last two directions were first and then second, in a row
LastTwo(tracking, first, second) ==
  /\ tracking.lastSignal = second
  /\ IF second = "SELL" THEN tracking.sellAfterBuyCount = 1
     ELSE tracking.buyAfterSellCount = 1
  /\ first # second

C32_Webhook(mode, symbol, p) ==
  LET payload == TrackedPayload(symbol, p)
      before == Tracking(signalStateByMode, mode, symbol)
      after == Tracking(signalStateByMode', mode, symbol)
      snapshot == SnapshotAfter(symbol)
  IN  ( /\ Webhook(payload, lastEvent'.receivedAt)
        /\ SignalRows(signalStateByMode', mode, symbol)
             # SignalRows(signalStateByMode, mode, symbol) )
      => /\ ( /\ TrackerSignal(payload) = "SELL"
              /\ LastTwo(before, "BUY", "SELL")
              /\ PriceBelow(snapshot, IF snapshot = <<>> THEN Null
                                      ELSE snapshot[1].lastBUYThreshold) )
            => after.buySellSell /\ SignalRows(signalStateByMode', mode, symbol)[1].buySellSell
         /\ ( /\ TrackerSignal(payload) = "BUY"
              /\ LastTwo(before, "SELL", "BUY")
              /\ PriceBelow(snapshot, IF snapshot = <<>> THEN Null
                                      ELSE snapshot[1].lastSELLThreshold) )
            => after.sellBuyBuy /\ SignalRows(signalStateByMode', mode, symbol)[1].sellBuyBuy

C32_Step ==
  lastEvent'.type = "signal"
    => \A mode \in FilterModes, symbol \in TrackedSymbols \ {NoString}, p \in TrackedPayloads :
         C32_Webhook(mode, symbol, p)

\* C32: a webhook the tracker classifies SELL, recorded when the tracker's last
\* two directions were BUY then SELL and the snapshot price is below the last
\* BUY threshold, sets buySellSell in the tracking record and in the row it
\* adds; a BUY after SELL then BUY with the price below the last SELL threshold
\* sets sellBuyBuy.
C32_CompoundDiagnosticsSet == [][C32_Step]_vars

\* C40: in every tracking record sellAfterBuyCount and buyAfterSellCount are 0
\* or 1, and buySellSell and sellBuyBuy are false in the record and in every
\* signal row.
C40_CountersNeverReachTwo ==
  \A mode \in FilterModes, symbol \in TrackedSymbols :
    LET tracking == Tracking(signalStateByMode, mode, symbol)
        rows == SignalRows(signalStateByMode, mode, symbol)
    IN  /\ tracking.sellAfterBuyCount \in {0, 1}
        /\ tracking.buyAfterSellCount \in {0, 1}
        /\ ~tracking.buySellSell
        /\ ~tracking.sellBuyBuy
        /\ \A i \in 1..Len(rows) : ~rows[i].buySellSell /\ ~rows[i].sellBuyBuy

\* BUY (by side), SELL, SELL were recorded for an instrument whose price is
\* below its last BUY threshold while its state machine waits for the entry
C40_Witness ==
  \E mode \in FilterModes, symbol \in TrackedSymbols \ {NoString} :
    LET tracking == Tracking(signalStateByMode, mode, symbol)
        rows == SignalRows(signalStateByMode, mode, symbol)
        snapshot == buildFsmSnapshot(fsmByToken, fsmBySymbol,
                                     latestLtpByToken, latestBinanceBySymbol)
    IN  /\ Len(rows) >= 3
        /\ rows[3].intent = NoString
        /\ ~rows[3].alternateSignal
        /\ rows[2].intent = "sell"
        /\ rows[2].alternateSignal
        /\ rows[1].intent = "sell"
        /\ tracking.lastSignal = "SELL"
        /\ tracking.sellAfterBuyCount = 0
        /\ symbol \in DOMAIN snapshot
        /\ snapshot[symbol].state = "NOPOSITION_SIGNAL"
        /\ snapshot[symbol].ltp # Null
        /\ snapshot[symbol].lastBUYThreshold # Null
        /\ snapshot[symbol].ltp < snapshot[symbol].lastBUYThreshold

---------------------------------------------------------------------------
(* Claims about the timestamps of an FSM record *)

C34_Shape(r) ==
  CASE r.state = "NOSIGNAL" ->
         r.lastSignalAtMs = Null /\ r.lastCheckedAtMs = Null /\ r.lastBlockedAtMs = Null
    [] r.state = "NOPOSITION_SIGNAL" ->
         r.lastSignalAtMs # Null /\ r.lastCheckedAtMs = Null /\ r.lastBlockedAtMs = Null
    [] r.state = "BUYPOSITION" ->
         r.lastCheckedAtMs # Null /\ r.lastBlockedAtMs = Null
    [] r.state = "NOPOSITION_BLOCKED" ->
         r.lastBlockedAtMs # Null /\ r.lastBlockedAtMs = r.lastCheckedAtMs
    [] OTHER -> FALSE

\* C34: every record of fsmByToken and fsmBySymbol has the timestamps of its
\* state: NOSIGNAL none of the three; NOPOSITION_SIGNAL lastSignalAtMs and
\* neither lastCheckedAtMs nor lastBlockedAtMs; BUYPOSITION lastCheckedAtMs and
\* no lastBlockedAtMs; NOPOSITION_BLOCKED lastBlockedAtMs, equal to
\* lastCheckedAtMs.
C34_TimestampsByState == \A r \in AllFsm : C34_Shape(r)

\* a record blocked out of its position by a price later than its signal
C34_Witness ==
  \E r \in AllFsm :
    /\ r.state = "NOPOSITION_BLOCKED"
    /\ r.lastBlockedAtMs > r.lastSignalAtMs
    /\ r.lastBlockedAtMs = r.lastCheckedAtMs
    /\ Len(lastLog) = 1
    /\ lastLog[1].prevState = "BUYPOSITION"

---------------------------------------------------------------------------
(* Claims about the paper ledger's record of the last snapshot *)

\* C35: an instrument has an open paper trade exactly when the state of the
\* last snapshot the ledger recorded for it is BUYPOSITION.
C35_OpenIffInPosition ==
  \A symbol \in LedgerSymbols :
    (symbol \in DOMAIN tradeState.openBySymbol)
      <=> ( /\ symbol \in DOMAIN tradeState.lastSnapshotBySymbol
            /\ tradeState.lastSnapshotBySymbol[symbol].state = "BUYPOSITION" )

---------------------------------------------------------------------------
(* Claims about the lifetime of a cooldown of the live mirror *)

\* the step clears the cooldown of the symbol, whose state object stays
CooldownCleared(symbol) ==
  /\ symbol \in DOMAIN stateBySymbol
  /\ symbol \in DOMAIN stateBySymbol'
  /\ stateBySymbol[symbol].blockedAtMs # Null
  /\ stateBySymbol'[symbol].blockedAtMs = Null

C36_Step(symbol) ==
  LET before == LiveState(stateBySymbol, symbol)
  IN  /\ CooldownCleared(symbol) => Minute(now) > Minute(before.blockedAtMs)
      /\ (LiveOpened(symbol) /\ before.blockedAtMs # Null)
           => Minute(now) > Minute(before.blockedAtMs)

\* C36: a step of the live mirror that takes blockedAtMs of a symbol from
\* non-null to null is made when the clock is in a later minute than the
\* anchor, and so is a step that opens a live trade for a symbol whose
\* blockedAtMs was set.
C36_CooldownLastsItsMinute == [][\A symbol \in LiveSymbols : C36_Step(symbol)]_vars

---------------------------------------------------------------------------
(* Claims about the sequence of order notifications *)

\* the kinds of the notifications for the symbol among the requests, in order
RECURSIVE KindsFor(_, _)
KindsFor(requests, symbol) ==
  IF requests = <<>> THEN <<>>
  ELSE (IF Head(requests).symbol = symbol THEN <<Head(requests).kind>> ELSE <<>>)
         \o KindsFor(Tail(requests), symbol)

\* the kinds continue an alternation of ENTRY and EXIT whose last kind was last
\* ("EXIT" standing for none so far)
RECURSIVE Alternates(_, _)
Alternates(last, kinds) ==
  IF kinds = <<>> THEN TRUE
  ELSE /\ Head(kinds) = (IF last = "ENTRY" THEN "EXIT" ELSE "ENTRY")
       /\ Alternates(Head(kinds), Tail(kinds))

\* the step is a call of the live mirror (the clock does not move in a call)
C37_Step(symbol) ==
  now' = now
    => Alternates(GetOr(lastOrderBySymbol, symbol, "EXIT"), KindsFor(sent', symbol))

\* C37: for each symbol the notifications of every call continue the
\* alternation ENTRY, EXIT, ENTRY, ... of the notifications sent before it: the
\* first is ENTRY, an ENTRY follows only an EXIT (or nothing) and an EXIT only
\* an ENTRY.
C37_OrdersAlternate == [][\A symbol \in LiveSymbols : C37_Step(symbol)]_vars

---------------------------------------------------------------------------
(* Claims about the open trade of the live mirror *)

C38_State(state) ==
  /\ state.state = "POSITION" <=> state.openTrade # <<>>
  /\ state.state = "POSITION" => state.pendingPaperTrade # <<>>
  /\ state.state \in {"NO_POSITION", "POSITION"}

C38_Step(symbol) ==
  LET before == LiveState(stateBySymbol, symbol)
      after == LiveState(stateBySymbol', symbol)
  IN  /\ LiveOpened(symbol) => before.state = "NO_POSITION" /\ before.openTrade = <<>>
      /\ (before.state = "POSITION" /\ after.state = "POSITION" /\ now' = now)
           => after.openTrade = before.openTrade /\ ~HasSent("ENTRY", symbol)'

\* C38: in every state object of the live mirror state is POSITION exactly when
\* openTrade is set, and a pending paper trade is recorded whenever state is
\* POSITION; a call made while the state is POSITION and leaving it POSITION
\* keeps the open trade and sends no ENTRY, and a trade is opened only from
\* NO_POSITION with no trade open.
C38_OneOpenTrade ==
  /\ [](\A symbol \in DOMAIN stateBySymbol : C38_State(stateBySymbol[symbol]))
  /\ [][\A symbol \in LiveSymbols : C38_Step(symbol)]_vars

\* onPaperTradeOpen was called again while the live trade was open: the pending
\* paper trade is newer than the open live trade, which was kept
C38_Witness ==
  \E symbol \in DOMAIN stateBySymbol :
    LET state == stateBySymbol[symbol]
    IN  /\ state.state = "POSITION"
        /\ state.openTrade # <<>>
        /\ state.pendingPaperTrade # <<>>
        /\ state.pendingPaperTrade[1].openedAt > state.openTrade[1].id.at
        /\ Len(state.trades) = 1
        /\ sent = <<>>

---------------------------------------------------------------------------
(* Claims about the published live mode *)

\* C39: whenever the published isLiveActive of a symbol is true and a pending
\* paper trade is recorded for the symbol, its live state is POSITION.
C39_LiveModeMeansPosition ==
  \A symbol \in DOMAIN liveModeSubject :
    ( /\ liveModeSubject[symbol]
      /\ symbol \in DOMAIN stateBySymbol
      /\ stateBySymbol[symbol].pendingPaperTrade # <<>> )
      => stateBySymbol[symbol].state = "POSITION"

---------------------------------------------------------------------------
(* Claims about the publication of the tick state and of its snapshot *)

\* the snapshot that belongs to a published tick state
SnapshotOf(state) ==
  buildFsmSnapshot(state.fsmByToken, state.fsmBySymbol, state.latestLtpByToken,
                   state.latestBinanceBySymbol)

\* C33: an observer combining tickState$ and fsmBySymbol$ is never handed the tick state of
\* an event together with a snapshot that is not the snapshot of that state
C33_StateAndSnapshotTogether ==
  \A i \in DOMAIN latestTicks : latestTicks[i].snapshot = SnapshotOf(latestTicks[i].state)

===========================================================================
